---- MODULE Spec2Model ----
(***************************************************************************)
(* Model of the Shopify size-chart extractor: URL discovery helpers, the   *)
(* per-store table parsers and canonicalizers, and the ExtractAll / store  *)
(* loops of the extractors and the command line entry point.               *)
(*                                                                         *)
(* Go strings are TLA+ strings handled character by character (SubSeq,     *)
(* Len and \o on strings).  A Go map[string]string is a function whose     *)
(* DOMAIN is the key set.  A parsed page is the tree the HTML parser       *)
(* builds: the rows of a table lie in its thead or in its tbody (bare rows *)
(* are wrapped in a tbody by the parser).                                  *)
(***************************************************************************)
EXTENDS Integers, Sequences, FiniteSets, TLC

VARIABLES
    \* ---- URL discovery (adapters: extractProductURLsFromCollection etc.)
    uStore,             \* adapter whose discovery runs
    uPage,              \* the collection page: anchors' href values by region
    uPc,                \* "start", "extracted", "deduped", "reapplied"
    uOp,                \* which extraction helper produced productURLs
    productURLs,        \* URLs emitted by link discovery (allProductURLs)
    uniqueProductURLs,  \* result of RemoveDuplicateURLs
    renormalized,       \* productURLs normalized a second time
    rededuped,          \* uniqueProductURLs deduplicated a second time
    \* ---- extractors' ExtractAll loops and the store loop of main
    stores,             \* the requested store names (flag --store / --stores)
    storeIdx,           \* position in stores of the store being processed
    rPc,                \* "main", "discover", "products", "return", "done"
    nURLs,              \* len(productURLs) of the store being processed
    idx,                \* loop index i of the ExtractAll product loop
    results,            \* ExtractAll's results: products, by URL index
    storeResults,       \* main's storeResults
    attempted,          \* URL indexes whose extraction was called (this store)
    failed,             \* URL indexes whose extraction returned an error
    startedStores,      \* positions in stores whose ExtractAll was called
    failedStores,       \* positions in stores whose ExtractAll returned an error
    \* ---- size-chart extraction from one parsed product page
    cStore,             \* adapter that extracts
    cDoc,               \* the parsed product page: its tables
    cPc,                \* "start", "done", "validated"
    cOp,                \* the extraction operation that ran
    charts,             \* the SizeCharts the operation returned
    cErr,               \* the error it returned ("" for nil)
    rawChart,           \* intermediate charts built on the way (parser output)
    headerCanon,        \* raw header -> canonical name chosen by the operation
    vChart,             \* the chart handed to IsValidSizeChart
    isValid,            \* what IsValidSizeChart returned for vChart
    \* ---- product title resolution on one parsed product page
    tStore,             \* adapter and extractor that resolve the title
    tDoc,               \* the parsed product page: its h1 elements, in document order
    tPc,                \* "start", "done"
    title,              \* the title the adapter returned
    tErr,               \* the error the adapter returned ("" for nil)
    tProducts,          \* the Products the extractor's loop iteration appended
    \* ---- one call of HTTPClient.Get (utils/http.go)
    hMaxRetries,        \* config.MaxRetries of the client
    hURL,               \* the url argument of Get
    hPc,                \* "select" (waiting in the select), "request", "returned"
    attempt,            \* loop variable attempt of Get
    tick,               \* TRUE when a tick is buffered in limiter.C
    ctxDone,            \* TRUE once the call's context is cancelled
    ctxAtCall,          \* whether the context was already cancelled when Get was called
    lastErr,            \* Get's lastErr ("" for nil)
    responses,          \* what each client.Do of this call answered, in order
    ticksTaken,         \* ticks this call received from limiter.C
    hBody,              \* the body Get returned ("" for nil)
    hErr,               \* the error Get returned ("" for nil)
    \* ---- adapter construction on one shared *types.Config
    callerHeadless,     \* the UseHeadlessBrowser value the caller put into the Config
    useHeadlessBrowser, \* the field Config.UseHeadlessBrowser now
    adapters,           \* the adapters constructed on the Config so far, by store
    fetched,            \* page fetches so far: the adapter's store and whether the browser fetched
    \* ---- repeated runs of BaseAdapter.FilterSizeChart on one chart
    fPc,                \* "idle", "run"
    fInput,             \* the sizeChart argument
    fOutputs,           \* what each run returned, in order (Nil for nil)
    \* ---- the row loop of SuqahAdapter.extractSuqahTableData on one table
    sHeaders,           \* the trimmed cells of the table's first row
    sSeen,              \* rows after the first processed so far
    sRowIndex,          \* rowIndex
    sRowsLen,           \* len(rows)
    sCells,             \* the row processed last
    sAppended,          \* whether the row processed last was appended to rows
    sRowData,           \* the rowData appended last
    \* ---- LittleBoxIndiaAdapter.GetProductURLs: the loop over the collections
    nCollections,       \* len(collectionURLs)
    collIdx,            \* i of "for i, collectionURL := range collectionURLs"
    collFetched,        \* the indices of the collections whose page was requested
    foundProducts       \* len(allProductURLs) > 0

varsURL == <<uStore, uPage, uPc, uOp, productURLs, uniqueProductURLs,
             renormalized, rededuped>>

varsRun == <<stores, storeIdx, rPc, nURLs, idx, results, storeResults,
             attempted, failed, startedStores, failedStores>>

varsChart == <<cStore, cDoc, cPc, cOp, charts, cErr, rawChart, headerCanon,
               vChart, isValid>>

varsTitle == <<tStore, tDoc, tPc, title, tErr, tProducts>>

varsHTTP == <<hMaxRetries, hURL, hPc, attempt, tick, ctxDone, ctxAtCall, lastErr, responses, ticksTaken, hBody, hErr>>

varsConfig == <<callerHeadless, useHeadlessBrowser, adapters, fetched>>

varsFilter == <<fPc, fInput, fOutputs>>

varsSuqahRows == <<sHeaders, sSeen, sRowIndex, sRowsLen, sCells, sAppended, sRowData>>

varsCollections == <<nCollections, collIdx, collFetched, foundProducts>>

vars == <<varsURL, varsRun, varsChart, varsTitle, varsHTTP, varsConfig, varsFilter, varsSuqahRows, varsCollections>>

\* what the actions of one part leave unchanged: the variables of the others
exceptURL == <<varsRun, varsChart, varsTitle, varsHTTP, varsConfig, varsFilter, varsSuqahRows, varsCollections>>

exceptRun == <<varsURL, varsChart, varsTitle, varsHTTP, varsConfig, varsFilter, varsSuqahRows, varsCollections>>

exceptChart == <<varsURL, varsRun, varsTitle, varsHTTP, varsConfig, varsFilter, varsSuqahRows, varsCollections>>

exceptTitle == <<varsURL, varsRun, varsChart, varsHTTP, varsConfig, varsFilter, varsSuqahRows, varsCollections>>

exceptHTTP == <<varsURL, varsRun, varsChart, varsTitle, varsConfig, varsFilter, varsSuqahRows, varsCollections>>

exceptConfig == <<varsURL, varsRun, varsChart, varsTitle, varsHTTP, varsFilter, varsSuqahRows, varsCollections>>

exceptFilter == <<varsURL, varsRun, varsChart, varsTitle, varsHTTP, varsConfig, varsSuqahRows, varsCollections>>

exceptSuqahRows == <<varsURL, varsRun, varsChart, varsTitle, varsHTTP, varsConfig, varsFilter, varsCollections>>

exceptCollections == <<varsURL, varsRun, varsChart, varsTitle, varsHTTP, varsConfig, varsFilter, varsSuqahRows>>

exceptRunAndCollections == <<varsURL, varsChart, varsTitle, varsHTTP, varsConfig, varsFilter,
                            varsSuqahRows>>

(***************************************************************************)
(* Bounds                                                                  *)
(***************************************************************************)
MaxAnchors == 3

\* product URLs a store's discovery may return (LittleBoxIndia: that many
\* beyond the index at which its product loop is capped)
MaxURLs == 2

\* data rows of a size table
MaxRows == 2

\* h1 elements on a product page
MaxHeadings == 2

\* largest config.MaxRetries a client is built with
MaxRetriesCap == 2

\* adapters constructed on one Config, and page fetches made through them
MaxAdapters == 3

MaxFetches == 2

\* runs of FilterSizeChart on the same chart
FilterRuns == 2

\* rows after the first in a Suqah table
MaxTableRows == 14

MaxCollections == 2

(***************************************************************************)
(* strings package                                                         *)
(***************************************************************************)
HasPrefix(s, p) == Len(s) >= Len(p) /\ SubSeq(s, 1, Len(p)) = p

HasSuffix(s, p) == Len(s) >= Len(p) /\ SubSeq(s, Len(s) - Len(p) + 1, Len(s)) = p

Contains(s, sub) ==
    \E i \in 1..(Len(s) - Len(sub) + 1) : SubSeq(s, i, i + Len(sub) - 1) = sub

IndexOf(s, sub) ==
    IF Contains(s, sub)
    THEN CHOOSE i \in 1..(Len(s) - Len(sub) + 1) :
            /\ SubSeq(s, i, i + Len(sub) - 1) = sub
            /\ \A k \in 1..(i - 1) : SubSeq(s, k, k + Len(sub) - 1) # sub
    ELSE 0

UpperChars == "ABCDEFGHIJKLMNOPQRSTUVWXYZ"

LowerChars == "abcdefghijklmnopqrstuvwxyz"

MapChar(c, from, to) ==
    IF Contains(from, c) THEN SubSeq(to, IndexOf(from, c), IndexOf(from, c)) ELSE c

RECURSIVE MapString(_, _, _)
MapString(s, from, to) ==
    IF s = "" THEN ""
    ELSE MapChar(SubSeq(s, 1, 1), from, to) \o MapString(SubSeq(s, 2, Len(s)), from, to)

ToLower(s) == MapString(s, UpperChars, LowerChars)

ToUpper(s) == MapString(s, LowerChars, UpperChars)

RECURSIVE TrimLeft(_)
TrimLeft(s) ==
    IF s # "" /\ SubSeq(s, 1, 1) = " " THEN TrimLeft(SubSeq(s, 2, Len(s))) ELSE s

RECURSIVE TrimRight(_)
TrimRight(s) ==
    IF s # "" /\ SubSeq(s, Len(s), Len(s)) = " "
    THEN TrimRight(SubSeq(s, 1, Len(s) - 1)) ELSE s

TrimSpace(s) == TrimRight(TrimLeft(s))

TrimSuffix(s, suffix) ==
    IF HasSuffix(s, suffix) THEN SubSeq(s, 1, Len(s) - Len(suffix)) ELSE s

(***************************************************************************)
(* Sequence helpers                                                        *)
(***************************************************************************)
Range(f) == {f[i] : i \in DOMAIN f}

SeqsUpTo(S, n) == UNION {[1..k -> S] : k \in 0..n}

RECURSIVE FlattenSeq(_)
FlattenSeq(ss) == IF ss = <<>> THEN <<>> ELSE Head(ss) \o FlattenSeq(Tail(ss))

FirstIndex(seq, x) == CHOOSE i \in DOMAIN seq : seq[i] = x /\ \A k \in 1..(i - 1) : seq[k] # x

(***************************************************************************)
(* URL Normalizer & Deduplicator                                           *)
(***************************************************************************)
Stores == {"westside.com", "suqah.com", "littleboxindia.com"}

\* the origin each adapter prefixes to relative hrefs
BaseURL(store) == "https://www." \o store

\* net/url Parse: fails on a malformed percent escape; the only malformed
\* escape among the modelled hrefs is "%zz"
ParseOK(u) == ~Contains(u, "%zz")

\* net/url URL.Hostname for the URL shapes of the model: the text between
\* "://" and the next "/", empty when the URL has no scheme
Hostname(u) ==
    IF HasPrefix(u, "https://") \/ HasPrefix(u, "http://")
    THEN LET rest == SubSeq(u, IndexOf(u, "://") + 3, Len(u))
         IN  IF Contains(rest, "/") THEN SubSeq(rest, 1, IndexOf(rest, "/") - 1) ELSE rest
    ELSE ""

Rejected == "<rejected>"

\* a plausible slip: the "already a full URL" test is dropped
NormalizeHref_AlwaysJoin(href, origin) ==
    LET t == TrimSpace(href)
    IN  IF t = "" THEN Rejected
        ELSE IF HasPrefix(t, "/") THEN origin \o t
        ELSE origin \o "/" \o t

\* trim, reject empty, make absolute (the block repeated in every link loop)
NormalizeHref(href, origin) ==
    LET t == TrimSpace(href)
    IN  IF t = "" THEN Rejected
        ELSE IF HasPrefix(t, "/") THEN origin \o t
        ELSE IF ~HasPrefix(t, "http") THEN origin \o "/" \o t
        ELSE t

\* doc.Find("a[href*='<needle>']"): the hrefs, in document order, that
\* contain the needle
RECURSIVE SelectHrefs(_, _)
SelectHrefs(hrefs, needle) ==
    IF hrefs = <<>> THEN <<>>
    ELSE IF Contains(Head(hrefs), needle)
         THEN <<Head(hrefs)>> \o SelectHrefs(Tail(hrefs), needle)
         ELSE SelectHrefs(Tail(hrefs), needle)

\* the Each callback of Suqah, LittleBoxIndia and the base helpers:
\* normalize, keep when url.Parse succeeds
RECURSIVE CollectLinks(_, _)
CollectLinks(hrefs, origin) ==
    IF hrefs = <<>> THEN <<>>
    ELSE LET u == NormalizeHref(Head(hrefs), origin)
         IN  (IF u # Rejected /\ ParseOK(u) THEN <<u>> ELSE <<>>)
             \o CollectLinks(Tail(hrefs), origin)

\* the Each callback of Westside: as above, and the host must contain the
\* store domain
RECURSIVE CollectWestsideLinks(_)
CollectWestsideLinks(hrefs) ==
    IF hrefs = <<>> THEN <<>>
    ELSE LET u == NormalizeHref(Head(hrefs), "https://www.westside.com")
         IN  (IF u # Rejected /\ ParseOK(u) /\ Contains(Hostname(u), "westside.com")
              THEN <<u>> ELSE <<>>)
             \o CollectWestsideLinks(Tail(hrefs))

WholePage(page) == page.wizzy \o page.swiper \o page.rest

\* link discovery that stops at the first container with links
WestsideProductLinks_FirstNonEmpty(page) ==
    IF CollectWestsideLinks(SelectHrefs(page.wizzy, "/products/")) # <<>>
    THEN CollectWestsideLinks(SelectHrefs(page.wizzy, "/products/"))
    ELSE IF CollectWestsideLinks(SelectHrefs(page.swiper, "/products/")) # <<>>
    THEN CollectWestsideLinks(SelectHrefs(page.swiper, "/products/"))
    ELSE CollectWestsideLinks(SelectHrefs(WholePage(page), "/products/"))

WestsideProductLinks(page) ==
    LET scoped == CollectWestsideLinks(SelectHrefs(page.wizzy, "/products/"))
                  \o CollectWestsideLinks(SelectHrefs(page.swiper, "/products/"))
    IN  IF Len(scoped) = 0
        THEN CollectWestsideLinks(SelectHrefs(WholePage(page), "/products/"))
        ELSE scoped

SuqahProductLinks(page) ==
    CollectLinks(SelectHrefs(WholePage(page), "/products/"), "https://www.suqah.com")

LittleBoxIndiaProductLinks(page) ==
    CollectLinks(SelectHrefs(WholePage(page), "/products/"), "https://www.littleboxindia.com")

ExtractProductURLsFromCollection(page, baseURL) ==
    CollectLinks(SelectHrefs(WholePage(page), "/products/"), baseURL)

ExtractCollectionURLs(page, baseURL) ==
    CollectLinks(SelectHrefs(WholePage(page), "collections"), baseURL)

\* a plausible slip: seen[url] is never set
RemoveDuplicateURLs_NoSeen(urls) == urls

RECURSIVE RemoveDuplicateLoop(_, _, _)
RemoveDuplicateLoop(urls, seen, uniqueURLs) ==
    IF urls = <<>> THEN uniqueURLs
    ELSE IF Head(urls) \in seen
         THEN RemoveDuplicateLoop(Tail(urls), seen, uniqueURLs)
         ELSE RemoveDuplicateLoop(Tail(urls), seen \cup {Head(urls)},
                                  Append(uniqueURLs, Head(urls)))

RemoveDuplicateURLs(urls) == RemoveDuplicateLoop(urls, {}, <<>>)

(***************************************************************************)
(* Inputs of link discovery                                                *)
(***************************************************************************)
Hrefs == {
    "/collections/c/products/a",
    " /collections/c/products/a ",
    "collections/c/products/b",
    "https://www.westside.com/products/a",
    "https://evil.com/products/x",
    "httpdocs/products/c",
    "/products/%zz" }

\* a collection page: the anchors inside .wizzy-search-results, inside
\* .swiper and elsewhere, in document order.  Only Westside's selectors
\* look at the two containers.
Pages(store) ==
    {[wizzy |-> SubSeq(a, 1, i), swiper |-> SubSeq(a, i + 1, j),
      rest |-> SubSeq(a, j + 1, Len(a))] :
        <<a, i, j>> \in {t \in SeqsUpTo(Hrefs, MaxAnchors) \X (0..MaxAnchors) \X (0..MaxAnchors) :
                            /\ t[2] <= t[3]
                            /\ t[3] <= Len(t[1])
                            /\ store # "westside.com" => t[3] = 0}}

IdleChart ==
    /\ cStore = "none"
    /\ cDoc = <<>>
    /\ cPc = "idle"
    /\ cOp = "none"
    /\ charts = <<>>
    /\ cErr = ""
    /\ rawChart = <<>>
    /\ headerCanon = <<>>
    /\ vChart = <<>>
    /\ isValid = FALSE

IdleTitle ==
    /\ tStore = "none"
    /\ tDoc = <<>>
    /\ tPc = "idle"
    /\ title = ""
    /\ tErr = ""
    /\ tProducts = <<>>

IdleHTTP ==
    /\ hMaxRetries = 0
    /\ hURL = ""
    /\ hPc = "idle"
    /\ attempt = 0
    /\ tick = FALSE
    /\ ctxDone = FALSE
    /\ ctxAtCall = FALSE
    /\ lastErr = ""
    /\ responses = <<>>
    /\ ticksTaken = 0
    /\ hBody = ""
    /\ hErr = ""

IdleConfig ==
    /\ callerHeadless = FALSE
    /\ useHeadlessBrowser = FALSE
    /\ adapters = <<>>
    /\ fetched = <<>>

IdleFilter ==
    /\ fPc = "idle"
    /\ fInput = <<>>
    /\ fOutputs = <<>>

IdleSuqahRows ==
    /\ sHeaders = <<>>
    /\ sSeen = -1
    /\ sRowIndex = 0
    /\ sRowsLen = 0
    /\ sCells = <<>>
    /\ sAppended = FALSE
    /\ sRowData = <<>>

IdleCollections ==
    /\ nCollections = 0
    /\ collIdx = 0
    /\ collFetched = {}
    /\ foundProducts = FALSE

IdleRun ==
    /\ stores = <<>>
    /\ storeIdx = 0
    /\ rPc = "idle"
    /\ nURLs = 0
    /\ idx = 0
    /\ results = <<>>
    /\ storeResults = <<>>
    /\ attempted = {}
    /\ failed = {}
    /\ startedStores = {}
    /\ failedStores = {}

InitURL ==
    /\ uStore \in Stores
    /\ uPage \in Pages(uStore)
    /\ uPc = "start"
    /\ uOp = "none"
    /\ productURLs = <<>>
    /\ uniqueProductURLs = <<>>
    /\ renormalized = <<>>
    /\ rededuped = <<>>
    /\ IdleRun
    /\ IdleChart
    /\ IdleTitle
    /\ IdleHTTP
    /\ IdleConfig
    /\ IdleFilter
    /\ IdleSuqahRows
    /\ IdleCollections

IdleURL ==
    /\ uStore = "none"
    /\ uPage = [wizzy |-> <<>>, swiper |-> <<>>, rest |-> <<>>]
    /\ uPc = "idle"
    /\ uOp = "none"
    /\ productURLs = <<>>
    /\ uniqueProductURLs = <<>>
    /\ renormalized = <<>>
    /\ rededuped = <<>>

\* <Store>Adapter.extractProductURLsFromCollection on a fetched page
StoreExtractProductURLs ==
    /\ uPc = "start"
    /\ productURLs' = (CASE uStore = "westside.com" -> WestsideProductLinks(uPage)
                         [] uStore = "suqah.com" -> SuqahProductLinks(uPage)
                         [] OTHER -> LittleBoxIndiaProductLinks(uPage))
    /\ uOp' = "extractProductURLsFromCollection"
    /\ uPc' = "extracted"
    /\ UNCHANGED <<uStore, uPage, uniqueProductURLs, renormalized, rededuped>>
    /\ UNCHANGED exceptURL

\* BaseAdapter.ExtractProductURLsFromCollection with the store's origin
BaseExtractProductURLs ==
    /\ uPc = "start"
    /\ productURLs' = ExtractProductURLsFromCollection(uPage, BaseURL(uStore))
    /\ uOp' = "ExtractProductURLsFromCollection"
    /\ uPc' = "extracted"
    /\ UNCHANGED <<uStore, uPage, uniqueProductURLs, renormalized, rededuped>>
    /\ UNCHANGED exceptURL

\* BaseAdapter.ExtractCollectionURLs with the store's origin
BaseExtractCollectionURLs ==
    /\ uPc = "start"
    /\ productURLs' = ExtractCollectionURLs(uPage, BaseURL(uStore))
    /\ uOp' = "ExtractCollectionURLs"
    /\ uPc' = "extracted"
    /\ UNCHANGED <<uStore, uPage, uniqueProductURLs, renormalized, rededuped>>
    /\ UNCHANGED exceptURL

\* GetProductURLs: uniqueProductURLs := RemoveDuplicateURLs(allProductURLs)
RemoveDuplicates ==
    /\ uPc = "extracted"
    /\ uniqueProductURLs' = RemoveDuplicateURLs(productURLs)
    /\ uPc' = "deduped"
    /\ UNCHANGED <<uStore, uPage, uOp, productURLs, renormalized, rededuped>>
    /\ UNCHANGED exceptURL

\* the normalizer and the deduplicator applied to their own output
Reapply ==
    /\ uPc = "deduped"
    /\ renormalized' = [i \in DOMAIN productURLs |->
                            NormalizeHref(productURLs[i], BaseURL(uStore))]
    /\ rededuped' = RemoveDuplicateURLs(uniqueProductURLs)
    /\ uPc' = "reapplied"
    /\ UNCHANGED <<uStore, uPage, uOp, productURLs, uniqueProductURLs>>
    /\ UNCHANGED exceptURL

NextURL ==
    \/ StoreExtractProductURLs
    \/ BaseExtractProductURLs
    \/ BaseExtractCollectionURLs
    \/ RemoveDuplicates
    \/ Reapply

SpecURL == InitURL /\ [][NextURL]_vars

(***************************************************************************)
(* Orchestration: <Store>Extractor.ExtractAll and the store loop of main   *)
(* (cmd/extractor) and of Server.handleExtract (cmd/api)                   *)
(***************************************************************************)
LittleBoxIndiaProductCap == 5

\* the store names the help text of the --store flag lists
DocumentedTokens == {"westside", "littleboxindia", "suqah"}

\* the lists of store names given on the command line
StoreLists == {
    <<>>,
    <<"unsupported-store.com">>,
    <<"westside">>,
    <<"littleboxindia">>,
    <<"suqah">>,
    <<"westside.com">>,
    <<"suqah.com", "littleboxindia.com">>,
    <<"littleboxindia.com", "westside.com">>,
    <<"unsupported-store.com", "suqah.com">>,
    <<"westside.com", "unsupported-store.com", "suqah.com">> }

MaxURLsOf(store) ==
    IF store = "littleboxindia.com" THEN LittleBoxIndiaProductCap + MaxURLs ELSE MaxURLs

StoreResult(store, products) ==
    [StoreName |-> store, Products |-> products, Error |-> ""]

Init ==
    /\ stores \in StoreLists
    /\ storeIdx = 1
    /\ rPc = "main"
    /\ nURLs = 0
    /\ idx = 0
    /\ results = <<>>
    /\ storeResults = <<>>
    /\ attempted = {}
    /\ failed = {}
    /\ startedStores = {}
    /\ failedStores = {}
    /\ IdleURL
    /\ IdleChart
    /\ IdleTitle
    /\ IdleHTTP
    /\ IdleConfig
    /\ IdleFilter
    /\ IdleSuqahRows
    /\ IdleCollections

\* main: switch store { ... default: "Unknown store", continue }
SkipUnknownStore ==
    /\ rPc = "main"
    /\ storeIdx <= Len(stores)
    /\ stores[storeIdx] \notin Stores
    /\ storeIdx' = storeIdx + 1
    /\ UNCHANGED <<stores, rPc, nURLs, idx, results, storeResults, attempted,
                   failed, startedStores, failedStores>>
    /\ UNCHANGED exceptRun

\* main: the store has an extractor; ExtractAll is called
StartStore ==
    /\ rPc = "main"
    /\ storeIdx <= Len(stores)
    /\ stores[storeIdx] \in Stores
    /\ startedStores' = startedStores \cup {storeIdx}
    /\ rPc' = "discover"
    /\ nURLs' = 0
    /\ idx' = 0
    /\ results' = <<>>
    /\ attempted' = {}
    /\ failed' = {}
    /\ UNCHANGED <<stores, storeIdx, storeResults, failedStores>>
    /\ UNCHANGED exceptRun

\* ExtractAll step 1: GetProductURLs fails; ExtractAll returns the error and
\* main logs it and continues with the next store
DiscoveryFails ==
    /\ rPc = "discover"
    /\ failedStores' = failedStores \cup {storeIdx}
    /\ storeIdx' = storeIdx + 1
    /\ rPc' = "main"
    /\ UNCHANGED <<stores, nURLs, idx, results, storeResults, attempted, failed,
                   startedStores>>
    /\ UNCHANGED exceptRun

\* ExtractAll step 1: GetProductURLs returns n product URLs
DiscoverySucceeds ==
    /\ rPc = "discover"
    /\ \E n \in 0..MaxURLsOf(stores[storeIdx]) : nURLs' = n
    /\ idx' = 0
    /\ rPc' = "products"
    /\ UNCHANGED <<stores, storeIdx, results, storeResults, attempted, failed,
                   startedStores, failedStores>>
    /\ UNCHANGED exceptRun

\* a plausible slip: the error branch leaves the loop instead of continuing
ExtractProduct_ErrorEndsLoop ==
    /\ rPc = "products"
    /\ idx < nURLs
    /\ attempted' = attempted \cup {idx}
    /\ \E outcome \in {"error", "nocharts", "charts"} :
        IF outcome = "error"
        THEN /\ failed' = failed \cup {idx}
             /\ rPc' = "return"
             /\ UNCHANGED <<results, idx>>
        ELSE /\ results' = (IF outcome = "charts" THEN Append(results, idx) ELSE results)
             /\ UNCHANGED failed
             /\ IF stores[storeIdx] = "littleboxindia.com" /\ idx >= LittleBoxIndiaProductCap
                THEN rPc' = "return" /\ UNCHANGED idx
                ELSE idx' = idx + 1 /\ UNCHANGED rPc
    /\ UNCHANGED <<stores, storeIdx, nURLs, storeResults, startedStores, failedStores>>
    /\ UNCHANGED exceptRun

\* ExtractAll step 2, one iteration of "for i, productURL := range productURLs":
\* the store's extraction of product i fails (logged, continue), or returns
\* no chart, or returns charts (a Product is appended).  LittleBoxIndia
\* ends the loop once i >= 5 at the bottom of an iteration.
ExtractProduct ==
    /\ rPc = "products"
    /\ idx < nURLs
    /\ attempted' = attempted \cup {idx}
    /\ \E outcome \in {"error", "nocharts", "charts"} :
        IF outcome = "error"
        THEN /\ failed' = failed \cup {idx}
             /\ idx' = idx + 1
             /\ UNCHANGED <<results, rPc>>
        ELSE /\ results' = (IF outcome = "charts" THEN Append(results, idx) ELSE results)
             /\ UNCHANGED failed
             /\ IF stores[storeIdx] = "littleboxindia.com" /\ idx >= LittleBoxIndiaProductCap
                THEN rPc' = "return" /\ UNCHANGED idx
                ELSE idx' = idx + 1 /\ UNCHANGED rPc
    /\ UNCHANGED <<stores, storeIdx, nURLs, storeResults, startedStores, failedStores>>
    /\ UNCHANGED exceptRun

LoopEnded == rPc = "return" \/ (rPc = "products" /\ idx = nURLs)

\* ExtractAll returns results; main appends the StoreResult
ReturnStore ==
    /\ LoopEnded
    /\ storeResults' = Append(storeResults, StoreResult(stores[storeIdx], results))
    /\ storeIdx' = storeIdx + 1
    /\ rPc' = "main"
    /\ UNCHANGED <<stores, nURLs, idx, results, attempted, failed, startedStores,
                   failedStores>>
    /\ UNCHANGED exceptRun

\* main: the loop over stores is over; finalResults is built and printed
Finish ==
    /\ rPc = "main"
    /\ storeIdx > Len(stores)
    /\ rPc' = "done"
    /\ UNCHANGED <<stores, storeIdx, nURLs, idx, results, storeResults, attempted,
                   failed, startedStores, failedStores>>
    /\ UNCHANGED exceptRun

Next ==
    \/ SkipUnknownStore
    \/ StartStore
    \/ DiscoveryFails
    \/ DiscoverySucceeds
    \/ ExtractProduct
    \/ ReturnStore
    \/ Finish

Spec == Init /\ [][Next]_vars

(***************************************************************************)
(* Go maps and more of the strings package                                 *)
(***************************************************************************)
EmptyMap == <<>>

MapSet(m, k, v) == [x \in (DOMAIN m) \cup {k} |-> IF x = k THEN v ELSE m[x]]

\* m[k] in Go: the zero value when the key is absent
MapGet(m, k) == IF k \in DOMAIN m THEN m[k] ELSE ""

RECURSIVE JoinStrings(_, _)
JoinStrings(ss, sep) ==
    IF ss = <<>> THEN ""
    ELSE IF Len(ss) = 1 THEN ss[1]
    ELSE ss[1] \o sep \o JoinStrings(Tail(ss), sep)

\* strings.Fields: the maximal runs of non-space characters
RECURSIVE FieldsLoop(_, _, _)
FieldsLoop(s, cur, acc) ==
    IF s = "" THEN (IF cur = "" THEN acc ELSE Append(acc, cur))
    ELSE IF SubSeq(s, 1, 1) = " "
         THEN FieldsLoop(SubSeq(s, 2, Len(s)), "", IF cur = "" THEN acc ELSE Append(acc, cur))
         ELSE FieldsLoop(SubSeq(s, 2, Len(s)), cur \o SubSeq(s, 1, 1), acc)

Fields(s) == FieldsLoop(s, "", <<>>)

ContainsAny(s, chars) == \E i \in 1..Len(chars) : Contains(s, SubSeq(chars, i, i))

RECURSIVE ReplaceAll(_, _, _)
ReplaceAll(s, old, new) ==
    IF s = "" THEN ""
    ELSE IF HasPrefix(s, old) THEN new \o ReplaceAll(SubSeq(s, Len(old) + 1, Len(s)), old, new)
    ELSE SubSeq(s, 1, 1) \o ReplaceAll(SubSeq(s, 2, Len(s)), old, new)

Digits == "0123456789"

\* fmt.Sprintf("%d", n) for 0 <= n
RECURSIVE Itoa(_)
Itoa(n) ==
    IF n < 10 THEN SubSeq(Digits, n + 1, n + 1)
    ELSE Itoa(n \div 10) \o SubSeq(Digits, (n % 10) + 1, (n % 10) + 1)

(***************************************************************************)
(* Parsed documents                                                        *)
(*   cell:  text outside the spans, text of span.default, text of          *)
(*          span.alt, value of the data-unit-values attribute              *)
(*   table: rows of the thead (th cells), rows of the tbody, and the       *)
(*          classes / containers the selectors of the adapters test        *)
(***************************************************************************)
T(text) == [text |-> text, def |-> "", alt |-> "", unit |-> ""]

D(def, alt) == [text |-> "", def |-> def, alt |-> alt, unit |-> ""]

U(text, unit) == [text |-> text, def |-> "", alt |-> "", unit |-> unit]

\* goquery Selection.Text of a cell: its text nodes in document order
CellText(cell) == cell.def \o cell.alt \o cell.text

Table(marks, thead, tbody) == [marks |-> marks, thead |-> thead, tbody |-> tbody]

\* doc.Find(selector) for the table selectors of the adapters: "table" finds
\* every table, ".chart_block" the tables reached through that container,
\* any other selector the tables carrying its class / container
RECURSIVE FindTables(_, _)
FindTables(tables, selector) ==
    IF tables = <<>> THEN <<>>
    ELSE (IF selector = "table"
             \/ selector \in Head(tables).marks
             \/ (selector = ".chart_block" /\ ".chart_block table" \in Head(tables).marks)
          THEN <<Head(tables)>> ELSE <<>>)
         \o FindTables(Tail(tables), selector)

TableRows(table) == table.thead \o table.tbody

\* table.Find("thead tr th, tr:first-child th, tr:first-child td"): the
\* cells of the thead rows and of the first row of the tbody
HeaderCells(table) ==
    FlattenSeq(table.thead)
    \o (IF table.tbody = <<>> THEN <<>> ELSE table.tbody[1])

\* table.Find("tbody tr, tr:not(:first-child)"): the thead rows after the
\* first, and every tbody row
BodyRows(table) ==
    (IF table.thead = <<>> THEN <<>> ELSE Tail(table.thead)) \o table.tbody

NoChart == [Headers |-> <<>>, Rows |-> <<>>]

\* a nil *types.SizeChart
Nil == [isNil |-> TRUE]

Ok(chart) == [chart |-> chart, err |-> ""]

Fail(msg) == [chart |-> NoChart, err |-> msg]

(***************************************************************************)
(* BaseAdapter.ExtractTableData                                            *)
(***************************************************************************)
RECURSIVE TrimmedTexts(_)
TrimmedTexts(cells) ==
    IF cells = <<>> THEN <<>>
    ELSE <<TrimSpace(CellText(Head(cells)))>> \o TrimmedTexts(Tail(cells))

\* row[headers[j]] = TrimSpace(cell.Text()) for the cells with j < len(headers)
RECURSIVE RowByHeaders(_, _, _, _)
RowByHeaders(values, headers, j, row) ==
    IF j > Len(values) THEN row
    ELSE RowByHeaders(values, headers, j + 1,
                      IF j <= Len(headers) THEN MapSet(row, headers[j], values[j]) ELSE row)

RECURSIVE TableDataRows(_, _)
TableDataRows(trs, headers) ==
    IF trs = <<>> THEN <<>>
    ELSE LET row == RowByHeaders(TrimmedTexts(Head(trs)), headers, 1, EmptyMap)
         IN  (IF Cardinality(DOMAIN row) > 0 THEN <<row>> ELSE <<>>)
             \o TableDataRows(Tail(trs), headers)

ExtractTableData(doc, tableSelector) ==
    LET found == FindTables(doc, tableSelector)
        headers == FlattenSeq([i \in DOMAIN found |-> TrimmedTexts(HeaderCells(found[i]))])
        rows == TableDataRows(FlattenSeq([i \in DOMAIN found |-> BodyRows(found[i])]), headers)
    IN  IF Len(found) = 0 THEN Fail("table not found with selector")
        ELSE IF Len(headers) = 0 THEN Fail("no headers found in table")
        ELSE IF Len(rows) = 0 THEN Fail("no data rows found in table")
        ELSE Ok([Headers |-> headers, Rows |-> rows])

(***************************************************************************)
(* BaseAdapter.IsValidSizeChart                                            *)
(***************************************************************************)
SizeKeywords == <<"size", "bust", "waist", "hip", "chest", "length", "width">>

\* IsValidSizeChart without the test of the rows' values
IsValidSizeChart_HeadersOnly(sizeChart) ==
    /\ sizeChart # Nil
    /\ Len(sizeChart.Headers) # 0
    /\ Len(sizeChart.Rows) # 0
    /\ \E k \in DOMAIN SizeKeywords :
          Contains(ToLower(JoinStrings(sizeChart.Headers, " ")), SizeKeywords[k])

IsValidSizeChart(sizeChart) ==
    /\ sizeChart # Nil
    /\ Len(sizeChart.Headers) # 0
    /\ Len(sizeChart.Rows) # 0
    /\ \/ \E k \in DOMAIN SizeKeywords :
             Contains(ToLower(JoinStrings(sizeChart.Headers, " ")), SizeKeywords[k])
       \/ \E r \in DOMAIN sizeChart.Rows : \E key \in DOMAIN sizeChart.Rows[r] :
             ContainsAny(ToUpper(sizeChart.Rows[r][key]), "SMLX")


(***************************************************************************)
(* BaseAdapter.FilterSizeChart.  Go iterates a map in an unspecified       *)
(* order, so the function has a set of possible results.                   *)
(***************************************************************************)
OutputHeaders == <<"Size", "Bust (in)", "Waist (in)", "Hip (in)">>

HeaderMap == [size |-> "Size", bust |-> "Bust (in)", waist |-> "Waist (in)",
              hip |-> "Hip (in)", hips |-> "Hip (in)"]

\* the canonical names "for key, canon := range headerMap" can stop at
HeaderCandidates(h) ==
    {HeaderMap[key] : key \in {k \in DOMAIN HeaderMap : Contains(ToLower(h), k)}}

\* the possible inputToOutput maps for the headers of a chart
RECURSIVE InputToOutputLoop(_, _)
InputToOutputLoop(headers, inputToOutput) ==
    IF headers = <<>> THEN {inputToOutput}
    ELSE LET candidates == HeaderCandidates(Head(headers))
         IN  IF candidates = {} THEN InputToOutputLoop(Tail(headers), inputToOutput)
             ELSE UNION {InputToOutputLoop(Tail(headers), MapSet(inputToOutput, Head(headers), canon)) :
                            canon \in candidates}

InputToOutputMaps(headers) == InputToOutputLoop(headers, EmptyMap)

\* the values "for inHeader, out := range inputToOutput" can find for one
\* output header of one row
OutputValueChoices(row, inputToOutput, outHeader) ==
    LET ins == {h \in DOMAIN inputToOutput : inputToOutput[h] = outHeader /\ h \in DOMAIN row}
    IN  IF ins = {} THEN {""} ELSE {row[h] : h \in ins}

\* the possible filteredRow maps of one row: one value per output header
FilteredRowChoices(row, inputToOutput) ==
    {[o \in Range(OutputHeaders) |-> v[FirstIndex(OutputHeaders, o)]] :
        v \in OutputValueChoices(row, inputToOutput, OutputHeaders[1])
               \X OutputValueChoices(row, inputToOutput, OutputHeaders[2])
               \X OutputValueChoices(row, inputToOutput, OutputHeaders[3])
               \X OutputValueChoices(row, inputToOutput, OutputHeaders[4])}

HasMeasurement(filteredRow) ==
    filteredRow["Bust (in)"] # "" \/ filteredRow["Waist (in)"] # "" \/ filteredRow["Hip (in)"] # ""

\* the possible filteredRows slices
RECURSIVE FilteredRowSeqs(_, _)
FilteredRowSeqs(rows, inputToOutput) ==
    IF rows = <<>> THEN {<<>>}
    ELSE {(IF HasMeasurement(fr) THEN <<fr>> ELSE <<>>) \o rest :
            fr \in FilteredRowChoices(Head(rows), inputToOutput),
            rest \in FilteredRowSeqs(Tail(rows), inputToOutput)}

\* the possible results: nil (isNil) or a chart, with the inputToOutput map
\* that was built
FilterSizeChart(sizeChart) ==
    {IF DOMAIN m = {}
     THEN [isNil |-> TRUE, chart |-> NoChart, inputToOutput |-> m]
     ELSE [isNil |-> FALSE, chart |-> [Headers |-> OutputHeaders, Rows |-> rows],
           inputToOutput |-> m] :
        <<m, rows>> \in UNION {{<<m2, r2>> : r2 \in FilteredRowSeqs(sizeChart.Rows, m2)} :
                                m2 \in InputToOutputMaps(sizeChart.Headers)}}

(***************************************************************************)
(* WestsideAdapter: extractDualUnitSizeChart, cleanHeader, cleanSizeText,  *)
(* ExtractSizeChart, ExtractAllSizeCharts; normalizeHeader                 *)
(***************************************************************************)
cleanHeader(h) ==
    LET header == ToLower(TrimSpace(h))
    IN  IF Contains(header, "shoulder") \/ Contains(header, "to fit shoulder") THEN "Shoulder"
        ELSE IF Contains(header, "chest") \/ Contains(header, "to fit chest") THEN "Chest"
        ELSE IF Contains(header, "waist") \/ Contains(header, "to fit waist") THEN "Waist"
        ELSE IF Contains(header, "hip") \/ Contains(header, "to fit hip") THEN "Hip"
        ELSE IF Contains(header, "bust") \/ Contains(header, "to fit bust") THEN "Bust"
        ELSE ""

cleanSizeText(sizeText) ==
    LET parts == Fields(sizeText)
    IN  IF Len(parts) >= 2 THEN JoinStrings(SubSeq(parts, 1, 2), " ") ELSE sizeText

normalizeHeader(header, unit) ==
    LET h == ToLower(header)
    IN  IF Contains(h, "bust") THEN "Bust (" \o unit \o ")"
        ELSE IF Contains(h, "waist") THEN "Waist (" \o unit \o ")"
        ELSE IF Contains(h, "hip") THEN "Hip (" \o unit \o ")"
        ELSE IF Contains(h, "size") THEN "Size"
        ELSE header

IsSizeHeader(header) == Contains(ToLower(header), "size")

\* headers: the non-empty trimmed texts of the header cells
RECURSIVE NonEmptyTexts(_)
NonEmptyTexts(cells) ==
    IF cells = <<>> THEN <<>>
    ELSE (IF TrimSpace(CellText(Head(cells))) # ""
          THEN <<TrimSpace(CellText(Head(cells)))>> ELSE <<>>)
         \o NonEmptyTexts(Tail(cells))

\* sizeChart.Headers: "Size", then "<clean> (cm)", "<clean> (in)" for every
\* header that is not a size header and that cleanHeader recognizes
RECURSIVE DualUnitHeaders(_)
DualUnitHeaders(headers) ==
    IF headers = <<>> THEN <<>>
    ELSE (IF ~IsSizeHeader(Head(headers)) /\ cleanHeader(Head(headers)) # ""
          THEN <<cleanHeader(Head(headers)) \o " (cm)", cleanHeader(Head(headers)) \o " (in)">>
          ELSE <<>>)
         \o DualUnitHeaders(Tail(headers))

\* one table row: cell number colIndex goes to headers[colIndex]
RECURSIVE DualUnitRow(_, _, _, _)
DualUnitRow(cells, headers, colIndex, row) ==
    IF colIndex > Len(cells) \/ colIndex > Len(headers) THEN row
    ELSE LET cell == cells[colIndex]
             header == headers[colIndex]
             sizeText == IF TrimSpace(cell.def) = "" THEN TrimSpace(CellText(cell))
                         ELSE TrimSpace(cell.def)
             clean == cleanHeader(header)
         IN  DualUnitRow(cells, headers, colIndex + 1,
                IF IsSizeHeader(header) THEN MapSet(row, "Size", cleanSizeText(sizeText))
                ELSE IF clean # ""
                     THEN MapSet(MapSet(row, clean \o " (cm)", TrimSpace(cell.def)),
                                 clean \o " (in)", TrimSpace(cell.alt))
                     ELSE row)

RECURSIVE DualUnitRows(_, _)
DualUnitRows(trs, headers) ==
    IF trs = <<>> THEN <<>>
    ELSE LET row == DualUnitRow(Head(trs), headers, 1, EmptyMap)
         IN  (IF Cardinality(DOMAIN row) > 0 THEN <<row>> ELSE <<>>)
             \o DualUnitRows(Tail(trs), headers)

WestsideHeaders(doc) ==
    LET found == FindTables(doc, ".sizeguide table")
    IN  IF Len(found) = 0 THEN <<>> ELSE NonEmptyTexts(HeaderCells(found[1]))

extractDualUnitSizeChart(doc, selector) ==
    LET found == FindTables(doc, selector)
        table == found[1]
        headers == NonEmptyTexts(HeaderCells(table))
        rows == DualUnitRows(BodyRows(table), headers)
    IN  IF Len(found) = 0 THEN Fail("size chart table not found")
        ELSE IF Len(headers) = 0 THEN Fail("no headers found in size chart")
        ELSE IF Len(rows) = 0 THEN Fail("no data rows found in size chart")
        ELSE Ok([Headers |-> <<"Size">> \o DualUnitHeaders(headers), Rows |-> rows])

\* ExtractSizeChart and extractSizeChartFromDoc share this body
WestsideExtractSizeChartFromDoc(doc) ==
    IF Len(FindTables(doc, ".sizeguide table")) = 0
    THEN Fail("size chart table not found in .sizeguide container")
    ELSE extractDualUnitSizeChart(doc, ".sizeguide table")

\* the measurement names of the "<name> (cm)" / "<name> (in)" headers, once
\* each, in order
RECURSIVE UniqueMeasurements(_, _)
UniqueMeasurements(headers, acc) ==
    IF headers = <<>> THEN acc
    ELSE LET header == Head(headers)
             baseName == TrimSuffix(TrimSuffix(header, " (cm)"), " (in)")
         IN  UniqueMeasurements(Tail(headers),
                IF header # "Size" /\ baseName # header /\ baseName \notin Range(acc)
                THEN Append(acc, baseName) ELSE acc)

\* the inches or the centimeters chart: Size and the "<m> (<unit>)" values
\* each row has; every row of the dual-unit chart is appended
UnitChart(sizeChart, measurements, unit) ==
    LET cols == {measurements[i] \o " (" \o unit \o ")" : i \in DOMAIN measurements}
    IN  [Headers |-> <<"Size">> \o [i \in DOMAIN measurements |->
                                        measurements[i] \o " (" \o unit \o ")"],
         Rows |-> [r \in DOMAIN sizeChart.Rows |->
                     [k \in (DOMAIN sizeChart.Rows[r]) \cap ({"Size"} \cup cols) |->
                        sizeChart.Rows[r][k]]]]

\* the charts ExtractAllSizeCharts builds from the dual-unit chart
WestsideSplitCharts(sizeChart) ==
    LET measurements == UniqueMeasurements(sizeChart.Headers, <<>>)
        inchesChart == UnitChart(sizeChart, measurements, "in")
        cmChart == UnitChart(sizeChart, measurements, "cm")
    IN  (IF Len(inchesChart.Rows) > 0 THEN <<inchesChart>> ELSE <<>>)
        \o (IF Len(cmChart.Rows) > 0 THEN <<cmChart>> ELSE <<>>)

\* the canonical name Westside gives a raw header: the Size column, the
\* cleanHeader measurement, or "" when the column is dropped
WestsideCanon(headers) ==
    [h \in Range(headers) |-> IF IsSizeHeader(h) THEN "Size" ELSE cleanHeader(h)]


(***************************************************************************)
(* SuqahAdapter: extractSuqahTableData, generateSizeLabel, looksLikeSize,  *)
(* isHeaderRow, extractSizeChartFromDoc / ExtractSizeChart                 *)
(***************************************************************************)
SizeProgression == <<"XS", "S", "M", "L", "XL", "2XL", "3XL", "4XL", "5XL", "6XL", "7XL", "8XL">>

\* a plausible slip: the progression is read one place too far
generateSizeLabel_OneBased(index) ==
    IF index + 1 < Len(SizeProgression) THEN SizeProgression[index + 2] ELSE Itoa(index + 2)

\* index is zero-based, as in the Go code
generateSizeLabel(index) ==
    IF index < Len(SizeProgression) THEN SizeProgression[index + 1] ELSE Itoa(index + 1)

SizePatterns == {"XS", "S", "M", "L", "XL", "XXL", "2XL", "3XL", "4XL", "5XL", "6XL", "7XL", "8XL"}

looksLikeSize(value) ==
    /\ value # ""
    /\ LET upperValue == ToUpper(TrimSpace(value))
       IN  \/ upperValue \in SizePatterns
           \/ (Len(upperValue) <= 3 /\ ContainsAny(upperValue, Digits))

HeaderWords == {"BUST", "WAIST", "HIP", "HIPS", "SIZE", "CHEST"}

isHeaderRow(row) ==
    LET totalValues == Cardinality({k \in DOMAIN row : row[k] # ""})
        headerCount == Cardinality({k \in DOMAIN row :
                            row[k] # "" /\ ToUpper(TrimSpace(row[k])) \in HeaderWords})
    IN  totalValues > 0 /\ headerCount >= totalValues \div 2

\* rowData of one table row, before the Size label is settled
SuqahRowData(cellValues, headers, hasSizeHeader) ==
    IF ~hasSizeHeader
    THEN LET r0 == IF Len(cellValues) > 0 THEN MapSet(EmptyMap, "Size", cellValues[1]) ELSE EmptyMap
             r1 == IF Len(cellValues) > 1 THEN MapSet(r0, "HIPS", cellValues[2]) ELSE r0
             r2 == IF Len(cellValues) > 2 THEN MapSet(r1, "BUST", cellValues[3]) ELSE r1
         IN  IF Len(cellValues) > 3 THEN MapSet(r2, "WAIST", cellValues[4]) ELSE r2
    ELSE RowByHeaders(cellValues, headers, 1, EmptyMap)

\* the rows after the first; rowIndex counts the rows accepted so far
RECURSIVE SuqahRows(_, _, _, _, _)
SuqahRows(trs, headers, hasSizeHeader, rowIndex, rows) ==
    IF trs = <<>> THEN rows
    ELSE LET cellValues == TrimmedTexts(Head(trs))
             firstColumnValue == IF Len(cellValues) > 0 THEN cellValues[1] ELSE ""
             rowData == SuqahRowData(cellValues, headers, hasSizeHeader)
         IN  IF Cardinality(DOMAIN rowData) > 0 /\ ~isHeaderRow(rowData)
             THEN SuqahRows(Tail(trs), headers, hasSizeHeader, rowIndex + 1,
                     Append(rows, MapSet(rowData, "Size",
                        IF firstColumnValue # "" /\ looksLikeSize(firstColumnValue)
                        THEN firstColumnValue ELSE generateSizeLabel(rowIndex))))
             ELSE SuqahRows(Tail(trs), headers, hasSizeHeader, rowIndex, rows)

extractSuqahTableData(doc, tableSelector) ==
    LET found == FindTables(doc, tableSelector)
        trs == FlattenSeq([i \in DOMAIN found |-> TableRows(found[i])])
        original == IF trs = <<>> THEN <<>> ELSE TrimmedTexts(Head(trs))
        hasSizeHeader == \E i \in DOMAIN original : Contains(ToLower(original[i]), "size")
        headers == IF hasSizeHeader THEN original ELSE <<"Size">> \o original
        rows == SuqahRows(Tail(trs), original, hasSizeHeader, 0, <<>>)
    IN  IF Len(found) = 0 THEN Fail("table not found with selector")
        ELSE IF Len(original) = 0 THEN Fail("no headers found in table")
        ELSE IF Len(rows) = 0 THEN Fail("no data rows found in table")
        ELSE Ok([Headers |-> headers, Rows |-> rows])

SuqahSelectors == <<".chart_block table", ".chart_block", "table", ".size-chart table",
                    ".product-size-chart table", ".size-guide table", "table[class*='size']",
                    "table[class*='chart']", ".product-details table">>

\* the selector loop without the return: an accepted selector does not keep
\* the later selectors from being tried and used
RECURSIVE SuqahSelectorLoop_NoStop(_, _, _)
SuqahSelectorLoop_NoStop(doc, k, seen) ==
    IF k > Len(SuqahSelectors)
    THEN {[chart |-> NoChart, err |-> "no valid size chart found on page", raw |-> seen,
           inputToOutput |-> EmptyMap, selector |-> 0]}
    ELSE LET parsed == extractSuqahTableData(doc, SuqahSelectors[k])
         IN  IF parsed.err # "" THEN SuqahSelectorLoop_NoStop(doc, k + 1, seen)
             ELSE {[chart |-> filtered.chart, err |-> "",
                    raw |-> Append(seen, parsed.chart),
                    inputToOutput |-> filtered.inputToOutput, selector |-> k] :
                      filtered \in {f \in FilterSizeChart(parsed.chart) :
                                      /\ IsValidSizeChart(parsed.chart)
                                      /\ ~f.isNil
                                      /\ Len(f.chart.Rows) > 0}}
                  \cup SuqahSelectorLoop_NoStop(doc, k + 1, Append(seen, parsed.chart))

\* the possible outcomes of the selector loop from position k on: the
\* filtered chart of the first selector whose table parses, is valid and
\* filters to at least one row, with the parsed charts seen on the way
RECURSIVE SuqahSelectorLoop(_, _, _)
SuqahSelectorLoop(doc, k, seen) ==
    IF k > Len(SuqahSelectors)
    THEN {[chart |-> NoChart, err |-> "no valid size chart found on page", raw |-> seen,
           inputToOutput |-> EmptyMap, selector |-> 0]}
    ELSE LET parsed == extractSuqahTableData(doc, SuqahSelectors[k])
         IN  IF parsed.err # "" THEN SuqahSelectorLoop(doc, k + 1, seen)
             ELSE IF ~IsValidSizeChart(parsed.chart)
                  THEN SuqahSelectorLoop(doc, k + 1, Append(seen, parsed.chart))
             ELSE LET outcomes == FilterSizeChart(parsed.chart)
                      returned == {filtered \in outcomes :
                                      ~filtered.isNil /\ Len(filtered.chart.Rows) > 0}
                  IN  {[chart |-> filtered.chart, err |-> "",
                        raw |-> Append(seen, parsed.chart),
                        inputToOutput |-> filtered.inputToOutput, selector |-> k] :
                          filtered \in returned}
                      \cup (IF returned # outcomes
                            THEN SuqahSelectorLoop(doc, k + 1, Append(seen, parsed.chart))
                            ELSE {})

SuqahExtractSizeChartFromDoc(doc) == SuqahSelectorLoop(doc, 1, <<>>)

(***************************************************************************)
(* LittleBoxIndiaAdapter: ExtractSizeChart, ExtractAllSizeCharts,          *)
(* ExtractProductTitleAndSizeCharts                                        *)
(***************************************************************************)
Quote == "\""

JSONError == [ok |-> FALSE, map |-> EmptyMap]

\* a JSON string at the head of s: its content and what follows it
ReadString(s) ==
    IF HasPrefix(s, Quote) /\ Contains(SubSeq(s, 2, Len(s)), Quote)
    THEN [ok |-> TRUE,
          str |-> SubSeq(s, 2, IndexOf(SubSeq(s, 2, Len(s)), Quote)),
          rest |-> SubSeq(s, IndexOf(SubSeq(s, 2, Len(s)), Quote) + 2, Len(s))]
    ELSE [ok |-> FALSE, str |-> "", rest |-> ""]

\* json.Unmarshal into map[string]string of the members after the opening
\* brace: "key":"value" pairs separated by commas, closed by a brace
RECURSIVE UnmarshalMembers(_, _)
UnmarshalValue(key, value, m) ==
    IF ~value.ok THEN JSONError
    ELSE IF value.rest = "}" THEN [ok |-> TRUE, map |-> MapSet(m, key, value.str)]
    ELSE IF HasPrefix(value.rest, ",")
         THEN UnmarshalMembers(SubSeq(value.rest, 2, Len(value.rest)), MapSet(m, key, value.str))
    ELSE JSONError

UnmarshalKey(key, m) ==
    IF ~key.ok \/ ~HasPrefix(key.rest, ":") THEN JSONError
    ELSE UnmarshalValue(key.str, ReadString(SubSeq(key.rest, 2, Len(key.rest))), m)

UnmarshalMembers(s, m) == UnmarshalKey(ReadString(s), m)

\* json.Unmarshal([]byte(s), &unitMap) for unitMap map[string]string
JSONUnmarshal(s) ==
    IF s = "{}" \/ s = "null" THEN [ok |-> TRUE, map |-> EmptyMap]
    ELSE IF HasPrefix(s, "{") THEN UnmarshalMembers(SubSeq(s, 2, Len(s)), EmptyMap)
    ELSE JSONError

WantedMeasurements == [x \in {"TO FIT BUST", "TO FIT WAIST", "TO FIT HIP"} |->
                        CASE x = "TO FIT BUST" -> "Bust"
                          [] x = "TO FIT WAIST" -> "Waist"
                          [] OTHER -> "Hip"]

RowLabel(cells) == IF cells = <<>> THEN "" ELSE ToUpper(TrimSpace(CellText(cells[1])))

\* DecodedValue without the fallback: a cell that fails to decode is skipped
DecodedValue_NoFallback(decoded, cell, unitKey) ==
    IF decoded.ok /\ unitKey \in DOMAIN decoded.map
    THEN [has |-> TRUE, val |-> decoded.map[unitKey]]
    ELSE [has |-> FALSE, val |-> ""]

\* the value of a cell whose data-unit-values attribute was handed to
\* json.Unmarshal: the entry of the unit, or the cell text when decoding failed
DecodedValue(decoded, cell, unitKey) ==
    IF decoded.ok
    THEN (IF unitKey \in DOMAIN decoded.map
          THEN [has |-> TRUE, val |-> decoded.map[unitKey]]
          ELSE [has |-> FALSE, val |-> ""])
    ELSE [has |-> TRUE, val |-> TrimSpace(CellText(cell))]

\* the value of a measurement cell for a unit index ("0" inches, "1" cm):
\* has |-> FALSE when the decoded map has no entry for the unit
UnitValue(cell, unitKey) ==
    IF cell.unit # ""
    THEN DecodedValue(JSONUnmarshal(ReplaceAll(cell.unit, "&quot;", Quote)), cell, unitKey)
    ELSE [has |-> TRUE, val |-> TrimSpace(CellText(cell))]

\* sizes: the non-empty trimmed texts of the first row's cells after the first
LittleBoxSizes(rows) ==
    IF rows = <<>> \/ rows[1] = <<>> THEN <<>> ELSE NonEmptyTexts(Tail(rows[1]))

\* ExtractSizeChart: one inchRow per wanted measurement row, kept when it
\* has exactly one value per size
RECURSIVE LittleBoxInchRows(_, _)
LittleBoxInchRows(trs, sizes) ==
    IF trs = <<>> THEN <<>>
    ELSE LET cells == Head(trs)
             label == RowLabel(cells)
             inchRow == <<WantedMeasurements[label]>>
                        \o [j \in 1..(Len(cells) - 1) |-> UnitValue(cells[j + 1], "0").val]
         IN  (IF label \in DOMAIN WantedMeasurements /\ Len(inchRow) = Len(sizes) + 1
              THEN <<inchRow>> ELSE <<>>)
             \o LittleBoxInchRows(Tail(trs), sizes)

LittleBoxExtractSizeChart(doc) ==
    LET found == FindTables(doc, "table.ks-table")
        rows == TableRows(found[1])
        sizes == LittleBoxSizes(rows)
        inchRows == LittleBoxInchRows(Tail(rows), sizes)
        headers == <<"Size">> \o sizes
        sizeChart == [Headers |-> headers,
                      Rows |-> [r \in DOMAIN inchRows |->
                                  RowByHeaders(inchRows[r], headers, 1, EmptyMap)]]
    IN  IF Len(found) = 0 THEN Fail("no valid size chart found on page")
        ELSE IF Len(rows) = 0 THEN Fail("no valid size chart rows found")
        ELSE IF Len(sizes) = 0 THEN Fail("no size headers found")
        ELSE IF Len(inchRows) > 0 /\ IsValidSizeChart(sizeChart) THEN Ok(sizeChart)
        ELSE Fail("no valid size chart found on page")

\* inchData / cmData after the cells of one measurement row
RECURSIVE LittleBoxRowCells(_, _, _, _, _, _)
LittleBoxRowCells(cells, j, sizes, outLabel, unitKey, data) ==
    IF j > Len(cells) THEN data
    ELSE LET cellIndex == j - 1
             v == UnitValue(cells[j], unitKey)
         IN  LittleBoxRowCells(cells, j + 1, sizes, outLabel, unitKey,
                IF cellIndex <= Len(sizes) /\ v.has
                THEN [data EXCEPT ![sizes[cellIndex]] = MapSet(@, outLabel, v.val)]
                ELSE data)

\* inchData / cmData: size -> measurement -> value
RECURSIVE LittleBoxUnitData(_, _, _, _)
LittleBoxUnitData(trs, sizes, unitKey, data) ==
    IF trs = <<>> THEN data
    ELSE LET label == RowLabel(Head(trs))
         IN  LittleBoxUnitData(Tail(trs), sizes, unitKey,
                IF label \in DOMAIN WantedMeasurements
                THEN LittleBoxRowCells(Head(trs), 2, sizes, WantedMeasurements[label], unitKey, data)
                ELSE data)

\* the rows of a unit chart: one per size that has a non-empty measurement
RECURSIVE LittleBoxUnitRows(_, _, _)
LittleBoxUnitRows(sizes, data, unit) ==
    IF sizes = <<>> THEN <<>>
    ELSE LET size == Head(sizes)
             row == [k \in {"Size"} \cup {m \o " (" \o unit \o ")" : m \in DOMAIN data[size]} |->
                        IF k = "Size" THEN size
                        ELSE data[size][TrimSuffix(k, " (" \o unit \o ")")]]
             keep == \E m \in {"Bust", "Waist", "Hip"} : MapGet(row, m \o " (" \o unit \o ")") # ""
         IN  (IF keep THEN <<row>> ELSE <<>>) \o LittleBoxUnitRows(Tail(sizes), data, unit)

LittleBoxUnitChart(rows, sizes, unitKey, unit) ==
    LET data == LittleBoxUnitData(Tail(rows), sizes, unitKey,
                                  [sz \in Range(sizes) |-> EmptyMap])
        chart == [Headers |-> <<"Size", "Bust (" \o unit \o ")", "Waist (" \o unit \o ")",
                                "Hip (" \o unit \o ")">>,
                  Rows |-> LittleBoxUnitRows(sizes, data, unit)]
    IN  IF Len(chart.Rows) > 0 /\ IsValidSizeChart(chart) THEN <<chart>> ELSE <<>>

\* the table part of ExtractProductTitleAndSizeCharts: charts and error
LittleBoxExtractCharts(doc) ==
    LET found == FindTables(doc, "table.ks-table")
        rows == TableRows(found[1])
        sizes == LittleBoxSizes(rows)
    IN  IF Len(found) = 0 THEN [charts |-> <<>>, err |-> "no valid size chart found on page"]
        ELSE IF Len(rows) = 0 THEN [charts |-> <<>>, err |-> "no valid size chart rows found"]
        ELSE IF Len(sizes) = 0 THEN [charts |-> <<>>, err |-> "no size headers found"]
        ELSE [charts |-> LittleBoxUnitChart(rows, sizes, "0", "in")
                         \o LittleBoxUnitChart(rows, sizes, "1", "cm"),
              err |-> ""]

\* ExtractAllSizeCharts: the same, with an error when no chart was built
NoChartIsError(r) ==
    IF r.err = "" /\ Len(r.charts) = 0
    THEN [charts |-> <<>>, err |-> "no valid size chart found on page"]
    ELSE r

LittleBoxExtractAllSizeCharts(doc) == NoChartIsError(LittleBoxExtractCharts(doc))


(***************************************************************************)
(* Inputs of size-chart extraction: parsed product pages                   *)
(***************************************************************************)
WestsideHeaderRows == {
    <<T("Size"), T("To Fit Bust"), T("Waist")>>,
    <<T("SIZE"), T("Bust Size"), T("Hip")>>,
    <<T("Size"), T("Bust/Waist"), T("Hip Size")>>,
    <<T("Size"), T(""), T("Shoulder")>>,
    <<T("Colour"), T("Fabric")>> }

WestsideDataRows == {
    <<T("S"), D("86", "34"), D("71", "28")>>,
    <<T("M UK 10"), D("91", "36"), D("", "")>>,
    <<T("L"), T("96"), T("")>>,
    <<T(""), T("  "), T("")>>,
    <<T("XL")>> }

SuqahHeaderRows == {
    <<T("HIPS"), T("BUST"), T("WAIST")>>,
    <<T("Size"), T("Bust"), T("Waist"), T("Hip")>>,
    <<T("CHEST"), T("WAIST")>>,
    <<T("SIZE"), T("TO FIT BUST"), T("TO FIT WAIST")>>,
    <<T("Bust Size"), T("Waist"), T("Hips")>>,
    <<T("Size"), T("Bust/Waist"), T("Low Hip")>>,
    <<T("Color"), T("Material")>> }

SuqahDataRows == {
    <<T("S"), T("34"), T("28"), T("36")>>,
    <<T("36"), T("30"), T("38")>>,
    <<T("M"), T(""), T(""), T("")>>,
    <<T("BUST"), T("WAIST"), T("HIPS")>>,
    <<T("XL")>> }

LittleBoxHeaderRows == {
    <<T("SIZE"), T("S"), T("M")>>,
    <<T("SIZE"), T("S"), T("")>>,
    <<T("SIZE"), T(""), T("M")>>,
    <<T("SIZE")>> }

LittleBoxDataRows == {
    <<T("TO FIT BUST"), U("34", "{&quot;0&quot;:&quot;34&quot;,&quot;1&quot;:&quot;86&quot;}"),
                        U("36", "{&quot;0&quot;:&quot;36&quot;,&quot;1&quot;:&quot;91&quot;}")>>,
    <<T("To Fit Waist"), U("28", "{&quot;1&quot;:&quot;71&quot;}"), U(" 30 ", "{0:30}")>>,
    <<T("TO FIT HIP"), T(""), T("")>>,
    <<T("LENGTH"), T("40"), T("41")>>,
    <<T("TO FIT HIP"), T("38")>> }

StoreMarks(store) ==
    CASE store = "westside.com" -> {{".sizeguide table"}, {}}
      [] store = "suqah.com" -> {{".chart_block table"}, {".size-chart table"}, {}}
      [] OTHER -> {{"table.ks-table"}, {}}

StoreHeaderRows(store) ==
    CASE store = "westside.com" -> WestsideHeaderRows
      [] store = "suqah.com" -> SuqahHeaderRows
      [] OTHER -> LittleBoxHeaderRows

StoreDataRows(store) ==
    CASE store = "westside.com" -> WestsideDataRows
      [] store = "suqah.com" -> SuqahDataRows
      [] OTHER -> LittleBoxDataRows

\* Suqah product pages with two tables, reached by different selectors: a
\* table without measurements and a size table, in either order
SuqahTwoTableDocs ==
    {<<Table(marks, <<>>, first), Table({".size-chart table"}, <<>>, second)>> :
        marks \in {{".chart_block table"}, {}},
        first \in {<<<<T("Color"), T("Material")>>, <<T("36"), T("30"), T("38")>>>>,
                   <<<<T("Size"), T("Bust"), T("Waist"), T("Hip")>>,
                     <<T("S"), T("34"), T("28"), T("36")>>>>},
        second \in {<<<<T("Size"), T("Bust"), T("Waist"), T("Hip")>>,
                      <<T("M"), T("36"), T("30"), T("38")>>>>,
                    <<<<T("Color"), T("Material")>>, <<T("36"), T("30"), T("38")>>>>}}

\* a product page with one table: the header row in a thead or as the first
\* row of the tbody, then up to MaxRows rows; for Suqah also the pages with
\* two tables
Docs(store) ==
    {<<Table(marks, IF inHead THEN <<header>> ELSE <<>>,
             IF inHead THEN rows ELSE <<header>> \o rows)>> :
        marks \in StoreMarks(store), inHead \in BOOLEAN,
        header \in StoreHeaderRows(store), rows \in SeqsUpTo(StoreDataRows(store), MaxRows)}
    \cup (IF store = "suqah.com" THEN SuqahTwoTableDocs ELSE {})

InitChart ==
    /\ cStore \in Stores
    /\ cDoc \in Docs(cStore)
    /\ cPc = "start"
    /\ cOp = "none"
    /\ charts = <<>>
    /\ cErr = ""
    /\ rawChart = <<>>
    /\ headerCanon = EmptyMap
    /\ vChart = <<>>
    /\ isValid = FALSE
    /\ IdleURL
    /\ IdleRun
    /\ IdleTitle
    /\ IdleHTTP
    /\ IdleConfig
    /\ IdleFilter
    /\ IdleSuqahRows
    /\ IdleCollections

\* the operation op returned chartsOut and errOut
Returns(op, chartsOut, errOut, raw, canon) ==
    /\ cOp' = op
    /\ charts' = chartsOut
    /\ cErr' = errOut
    /\ rawChart' = raw
    /\ headerCanon' = canon
    /\ cPc' = "done"
    /\ UNCHANGED <<cStore, cDoc, vChart, isValid>>
    /\ UNCHANGED exceptChart

\* GetPageContent failed: the operation returns "failed to get page content"
FetchFails(op) == Returns(op, <<>>, "failed to get page content", <<>>, EmptyMap)

\* WestsideAdapter.ExtractSizeChart
WestsideExtractSizeChart ==
    /\ cPc = "start"
    /\ cStore = "westside.com"
    /\ \/ FetchFails("ExtractSizeChart")
       \/ \E r \in {WestsideExtractSizeChartFromDoc(cDoc)} :
            Returns("ExtractSizeChart", IF r.err = "" THEN <<r.chart>> ELSE <<>>, r.err,
                    <<>>, WestsideCanon(WestsideHeaders(cDoc)))

\* WestsideAdapter.ExtractAllSizeCharts
WestsideExtractAllSizeCharts ==
    /\ cPc = "start"
    /\ cStore = "westside.com"
    /\ \/ FetchFails("ExtractAllSizeCharts")
       \/ \E r \in {WestsideExtractSizeChartFromDoc(cDoc)} :
            IF r.err # ""
            THEN Returns("ExtractAllSizeCharts", <<>>, r.err, <<>>,
                         WestsideCanon(WestsideHeaders(cDoc)))
            ELSE \E split \in {WestsideSplitCharts(r.chart)} :
                    Returns("ExtractAllSizeCharts", split,
                            IF Len(split) = 0 THEN "no valid size chart found" ELSE "",
                            <<r.chart>>, WestsideCanon(WestsideHeaders(cDoc)))

\* SuqahAdapter.ExtractSizeChart
SuqahExtractSizeChart ==
    /\ cPc = "start"
    /\ cStore = "suqah.com"
    /\ \/ FetchFails("ExtractSizeChart")
       \/ \E o \in SuqahExtractSizeChartFromDoc(cDoc) :
            Returns("ExtractSizeChart", IF o.err = "" THEN <<o.chart>> ELSE <<>>, o.err,
                    o.raw, o.inputToOutput)

\* SuqahAdapter.ExtractAllSizeCharts
SuqahExtractAllSizeCharts ==
    /\ cPc = "start"
    /\ cStore = "suqah.com"
    /\ \/ FetchFails("ExtractAllSizeCharts")
       \/ \E o \in SuqahExtractSizeChartFromDoc(cDoc) :
            Returns("ExtractAllSizeCharts", IF o.err = "" THEN <<o.chart>> ELSE <<>>, o.err,
                    o.raw, o.inputToOutput)

\* SuqahAdapter.ExtractProductData: a failed chart extraction is logged and
\* the product is returned without charts
SuqahExtractProductData ==
    /\ cPc = "start"
    /\ cStore = "suqah.com"
    /\ \/ FetchFails("ExtractProductData")
       \/ \E o \in SuqahExtractSizeChartFromDoc(cDoc) :
            Returns("ExtractProductData", IF o.err = "" THEN <<o.chart>> ELSE <<>>, "",
                    o.raw, o.inputToOutput)

\* LittleBoxIndiaAdapter.ExtractSizeChart
LittleBoxIndiaExtractSizeChart ==
    /\ cPc = "start"
    /\ cStore = "littleboxindia.com"
    /\ \/ FetchFails("ExtractSizeChart")
       \/ \E r \in {LittleBoxExtractSizeChart(cDoc)} :
            Returns("ExtractSizeChart", IF r.err = "" THEN <<r.chart>> ELSE <<>>, r.err,
                    <<>>, EmptyMap)

\* LittleBoxIndiaAdapter.ExtractAllSizeCharts
LittleBoxIndiaExtractAllSizeCharts ==
    /\ cPc = "start"
    /\ cStore = "littleboxindia.com"
    /\ \/ FetchFails("ExtractAllSizeCharts")
       \/ \E r \in {LittleBoxExtractAllSizeCharts(cDoc)} :
            Returns("ExtractAllSizeCharts", r.charts, r.err, <<>>, EmptyMap)

\* LittleBoxIndiaAdapter.ExtractProductTitleAndSizeCharts
LittleBoxIndiaExtractProductTitleAndSizeCharts ==
    /\ cPc = "start"
    /\ cStore = "littleboxindia.com"
    /\ \/ FetchFails("ExtractProductTitleAndSizeCharts")
       \/ \E r \in {LittleBoxExtractCharts(cDoc)} :
            Returns("ExtractProductTitleAndSizeCharts", r.charts, r.err, <<>>, EmptyMap)

\* BaseAdapter.ExtractTableData on the page, for every table of the page
BaseExtractTableData ==
    /\ cPc = "start"
    /\ \E r \in {ExtractTableData(cDoc, "table")} :
          Returns("ExtractTableData", <<>>, r.err,
                  IF r.err = "" THEN <<r.chart>> ELSE <<>>, EmptyMap)

\* a SizeChart whose headers are the cells of the first row of the table and
\* whose rows are the other rows of the table
ChartOfTable(table) ==
    [Headers |-> TrimmedTexts(Head(TableRows(table))),
     Rows |-> TableDataRows(Tail(TableRows(table)), TrimmedTexts(Head(TableRows(table))))]

\* the charts handed to IsValidSizeChart: nil, the chart ExtractTableData
\* parsed, and the chart of the page's table, whole or without headers or rows
ClassifierInputs ==
    {Nil} \cup Range(rawChart)
    \cup {[Headers |-> IF noHeaders THEN <<>> ELSE chart.Headers,
           Rows |-> IF noRows THEN <<>> ELSE chart.Rows] :
            chart \in {ChartOfTable(cDoc[1])}, noHeaders \in BOOLEAN, noRows \in BOOLEAN}

\* BaseAdapter.IsValidSizeChart
BaseIsValidSizeChart ==
    /\ cPc = "done"
    /\ cOp = "ExtractTableData"
    /\ \E sizeChart \in ClassifierInputs :
          /\ vChart' = sizeChart
          /\ isValid' = IsValidSizeChart(sizeChart)
    /\ cPc' = "validated"
    /\ UNCHANGED <<cStore, cDoc, cOp, charts, cErr, rawChart, headerCanon>>
    /\ UNCHANGED exceptChart

NextChart ==
    \/ BaseIsValidSizeChart
    \/ WestsideExtractSizeChart
    \/ WestsideExtractAllSizeCharts
    \/ SuqahExtractSizeChart
    \/ SuqahExtractAllSizeCharts
    \/ SuqahExtractProductData
    \/ LittleBoxIndiaExtractSizeChart
    \/ LittleBoxIndiaExtractAllSizeCharts
    \/ LittleBoxIndiaExtractProductTitleAndSizeCharts
    \/ BaseExtractTableData

SpecChart == InitChart /\ [][NextChart]_vars


(***************************************************************************)
(* Product title resolution: BaseAdapter.ExtractText, the adapters' title  *)
(* selector loops and the Product each extractor appends                   *)
(***************************************************************************)
\* an h1 element: the title selectors besides "h1" that match it, its text
Heading(marks, text) == [marks |-> marks, text |-> text]

\* doc.Find(selector) for the title selectors: "h1" matches every h1, a
\* h1 of class product-title also has a class containing "title"
RECURSIVE FindHeadings(_, _)
FindHeadings(doc, selector) ==
    IF doc = <<>> THEN <<>>
    ELSE (IF selector = "h1"
             \/ selector \in Head(doc).marks
             \/ (selector = "h1[class*='title']" /\ "h1.product-title" \in Head(doc).marks)
          THEN <<Head(doc).text>> ELSE <<>>)
         \o FindHeadings(Tail(doc), selector)

\* BaseAdapter.ExtractText: the trimmed text of all matched elements, or an
\* error when the selector matches nothing
ExtractText(doc, selector) ==
    IF Len(FindHeadings(doc, selector)) = 0
    THEN [text |-> "", err |-> "element not found with selector"]
    ELSE [text |-> TrimSpace(JoinStrings(FindHeadings(doc, selector), "")), err |-> ""]

TitleSelectors == <<"h1.product-title", "h1[class*='title']", ".product-name h1",
                    ".product-info h1", ".product-details h1", "h1">>

WestsideTitleSelectors == <<".product__title h1">> \o TitleSelectors

\* GetProductTitleFromDoc of Westside and Suqah: the first selector, from
\* position k on, with non-empty text; else the error
RECURSIVE GetProductTitleFromDoc(_, _, _)
GetProductTitleFromDoc(doc, selectors, k) ==
    IF k > Len(selectors) THEN [text |-> "", err |-> "product title not found on page"]
    ELSE IF ExtractText(doc, selectors[k]).err = "" /\ ExtractText(doc, selectors[k]).text # ""
         THEN [text |-> ExtractText(doc, selectors[k]).text, err |-> ""]
         ELSE GetProductTitleFromDoc(doc, selectors, k + 1)

\* the title loop of LittleBoxIndia's ExtractProductTitleAndSizeCharts:
\* title is assigned by every selector tried
RECURSIVE LittleBoxTitleLoop(_, _, _)
LittleBoxTitleLoop(doc, k, current) ==
    IF k > Len(TitleSelectors) THEN current
    ELSE IF ExtractText(doc, TitleSelectors[k]).err = "" /\ ExtractText(doc, TitleSelectors[k]).text # ""
         THEN ExtractText(doc, TitleSelectors[k]).text
         ELSE LittleBoxTitleLoop(doc, k + 1, ExtractText(doc, TitleSelectors[k]).text)

\* the adapters' defaults
SuqahTitle(found) == IF found.err # "" THEN "Unknown Product" ELSE found.text

LittleBoxTitle(current) == IF current = "" THEN "Unknown Product" ELSE current

\* WestsideExtractor.ExtractAll without the fallback for an empty title
WestsideProductTitle_NoDefault(adapterTitle) == adapterTitle

\* WestsideExtractor.ExtractAll: "Unknown Product" for an empty title
WestsideProductTitle(adapterTitle) ==
    IF adapterTitle = "" THEN "Unknown Product" ELSE adapterTitle

Product(productTitle, sizeCharts) == [ProductTitle |-> productTitle, SizeCharts |-> sizeCharts]

HeadingTexts == {"", "  ", " Floral Dress ", "Sale"}

HeadingMarks == {{}, {"h1.product-title"}, {".product__title h1"}, {".product-info h1"}}

TitleDocs ==
    SeqsUpTo({Heading(marks, text) : marks \in HeadingMarks, text \in HeadingTexts},
             MaxHeadings)

InitTitle ==
    /\ tStore \in Stores
    /\ tDoc \in TitleDocs
    /\ tPc = "start"
    /\ title = ""
    /\ tErr = ""
    /\ tProducts = <<>>
    /\ IdleURL
    /\ IdleRun
    /\ IdleChart
    /\ IdleHTTP
    /\ IdleConfig
    /\ IdleFilter
    /\ IdleSuqahRows
    /\ IdleCollections

\* one iteration of an extractor's product loop: the adapter returned
\* adapterTitle with nCharts charts or an error; a Product is appended when
\* there is no error and at least one chart
ProductIteration(adapterTitle, productTitle, errOut, nCharts) ==
    /\ title' = adapterTitle
    /\ tErr' = errOut
    /\ tProducts' = (IF errOut = "" /\ nCharts > 0
                     THEN Append(tProducts, Product(productTitle, nCharts))
                     ELSE tProducts)
    /\ tPc' = "done"
    /\ UNCHANGED <<tStore, tDoc>>
    /\ UNCHANGED exceptTitle

\* WestsideExtractor.ExtractAll, one product: WestsideAdapter.ExtractAllSizeCharts
\* returns the title found (or "") with the charts or the error of the chart
\* extraction
WestsideProduct ==
    /\ tPc = "start"
    /\ tStore = "westside.com"
    /\ \/ ProductIteration("", "", "failed to get page content", 0)
       \/ \E found \in {GetProductTitleFromDoc(tDoc, WestsideTitleSelectors, 1)} :
            \/ \E errOut \in {"no valid size chart found on page", "no valid size chart found"} :
                  ProductIteration(found.text, WestsideProductTitle(found.text), errOut, 0)
            \/ \E nCharts \in 1..2 :
                  ProductIteration(found.text, WestsideProductTitle(found.text), "", nCharts)

\* SuqahExtractor.ExtractAll, one product: SuqahAdapter.ExtractProductData
\* returns the title, or "Unknown Product", with zero or one chart
SuqahProduct ==
    /\ tPc = "start"
    /\ tStore = "suqah.com"
    /\ \/ ProductIteration("", "", "failed to get page content", 0)
       \/ \E t \in {SuqahTitle(GetProductTitleFromDoc(tDoc, TitleSelectors, 1))} :
            \E nCharts \in 0..1 : ProductIteration(t, t, "", nCharts)

\* LittleBoxIndiaExtractor.ExtractAll, one product:
\* LittleBoxIndiaAdapter.ExtractProductTitleAndSizeCharts returns the title,
\* or "Unknown Product", with the charts or an error of the table lookup
LittleBoxIndiaProduct ==
    /\ tPc = "start"
    /\ tStore = "littleboxindia.com"
    /\ \/ ProductIteration("", "", "failed to get page content", 0)
       \/ \E t \in {LittleBoxTitle(LittleBoxTitleLoop(tDoc, 1, ""))} :
            \/ ProductIteration(t, t, "no valid size chart found on page", 0)
            \/ \E nCharts \in 0..2 : ProductIteration(t, t, "", nCharts)

NextTitle ==
    \/ WestsideProduct
    \/ SuqahProduct
    \/ LittleBoxIndiaProduct

SpecTitle == InitTitle /\ [][NextTitle]_vars


(***************************************************************************)
(* HTTPClient.Get (utils/http.go): the retry loop behind the rate limiter. *)
(* The call blocks in a select on limiter.C and ctx.Done(); the ticker and *)
(* the owner of the context run beside it.                                 *)
(***************************************************************************)

\* context.Canceled, the value ctx.Err() returns once the context is cancelled
Canceled == "context canceled"

\* what one client.Do and the read of its body produced: the transport's
\* error ("" for nil), the status code, the error of io.ReadAll, the body
Response(err, status, readErr, body) ==
    [err |-> err, status |-> status, readErr |-> readErr, body |-> body]

\* the answers one attempt can get; a request whose context is already
\* cancelled is refused by the transport with the context's error
Answers(cancelled) ==
    IF cancelled
    THEN {Response(Canceled, 0, "", "")}
    ELSE {Response("connection refused", 0, "", ""),
          Response("", 404, "", "Not Found"),
          Response("", 500, "", "Internal Server Error"),
          Response("", 200, "unexpected EOF", ""),
          Response("", 200, "", "<html><body>Test content</body></html>")}

\* a plausible slip: the status check is dropped
AttemptError_AnyStatus(r) ==
    IF r.err # "" THEN "request failed: " \o r.err
    ELSE IF r.readErr # "" THEN "failed to read response body: " \o r.readErr
    ELSE ""

\* the lastErr one attempt leaves, "" when the attempt succeeds
AttemptError(r) ==
    IF r.err # "" THEN "request failed: " \o r.err
    ELSE IF r.status # 200 THEN "unexpected status code: " \o Itoa(r.status)
    ELSE IF r.readErr # "" THEN "failed to read response body: " \o r.readErr
    ELSE ""

HTTPURLs == {"http://127.0.0.1/page", "http://127.0.0.1/%zz"}

InitHTTP ==
    /\ IdleURL
    /\ IdleRun
    /\ IdleChart
    /\ IdleTitle
    /\ IdleConfig
    /\ IdleFilter
    /\ IdleSuqahRows
    /\ IdleCollections
    /\ hMaxRetries \in 0..MaxRetriesCap
    /\ hURL \in HTTPURLs
    /\ hPc = "select"
    /\ attempt = 0
    /\ tick \in BOOLEAN
    /\ ctxDone \in BOOLEAN
    /\ ctxAtCall = ctxDone
    /\ lastErr = ""
    /\ responses = <<>>
    /\ ticksTaken = 0
    /\ hBody = ""
    /\ hErr = ""

\* the ticker puts a tick into limiter.C; a tick that finds the buffer full is dropped
LimiterTick ==
    /\ hPc # "idle"
    /\ ~tick
    /\ tick' = TRUE
    /\ UNCHANGED <<hMaxRetries, hURL, hPc, attempt, ctxDone, ctxAtCall, lastErr,
                   responses, ticksTaken, hBody, hErr>>
    /\ UNCHANGED exceptHTTP

\* the owner of the context cancels it
CtxCancel ==
    /\ hPc # "idle"
    /\ ~ctxDone
    /\ ctxDone' = TRUE
    /\ UNCHANGED <<hMaxRetries, hURL, hPc, attempt, tick, ctxAtCall, lastErr,
                   responses, ticksTaken, hBody, hErr>>
    /\ UNCHANGED exceptHTTP

\* select takes case <-h.limiter.C (any ready case may be taken)
GetSelectTick ==
    /\ hPc = "select"
    /\ attempt <= hMaxRetries
    /\ tick
    /\ tick' = FALSE
    /\ ticksTaken' = ticksTaken + 1
    /\ hPc' = "request"
    /\ UNCHANGED <<hMaxRetries, hURL, attempt, ctxDone, ctxAtCall, lastErr,
                   responses, hBody, hErr>>
    /\ UNCHANGED exceptHTTP

\* select takes case <-ctx.Done(): return nil, ctx.Err()
GetSelectCtxDone ==
    /\ hPc = "select"
    /\ attempt <= hMaxRetries
    /\ ctxDone
    /\ hErr' = Canceled
    /\ hPc' = "returned"
    /\ UNCHANGED <<hMaxRetries, hURL, attempt, tick, ctxDone, ctxAtCall, lastErr,
                   responses, ticksTaken, hBody>>
    /\ UNCHANGED exceptHTTP

\* http.NewRequestWithContext fails on a url that does not parse
GetNewRequestFails ==
    /\ hPc = "request"
    /\ ~ParseOK(hURL)
    /\ hErr' = "failed to create request: invalid URL escape"
    /\ hPc' = "returned"
    /\ UNCHANGED <<hMaxRetries, hURL, attempt, tick, ctxDone, ctxAtCall, lastErr,
                   responses, ticksTaken, hBody>>
    /\ UNCHANGED exceptHTTP

\* one attempt: client.Do, the status check and the read of the body
GetDo ==
    /\ hPc = "request"
    /\ ParseOK(hURL)
    /\ \E r \in Answers(ctxDone) :
         /\ responses' = Append(responses, r)
         /\ IF AttemptError(r) = ""
            THEN /\ hBody' = r.body
                 /\ hPc' = "returned"
                 /\ UNCHANGED <<attempt, lastErr>>
            ELSE /\ lastErr' = AttemptError(r)
                 /\ attempt' = attempt + 1
                 /\ hPc' = "select"
                 /\ UNCHANGED hBody
    /\ UNCHANGED <<hMaxRetries, hURL, tick, ctxDone, ctxAtCall, ticksTaken, hErr>>
    /\ UNCHANGED exceptHTTP

\* the loop ends with every attempt failed
GetAllFailed ==
    /\ hPc = "select"
    /\ attempt > hMaxRetries
    /\ hErr' = "all retry attempts failed: " \o lastErr
    /\ hPc' = "returned"
    /\ UNCHANGED <<hMaxRetries, hURL, attempt, tick, ctxDone, ctxAtCall, lastErr,
                   responses, ticksTaken, hBody>>
    /\ UNCHANGED exceptHTTP

NextHTTP ==
    \/ LimiterTick
    \/ CtxCancel
    \/ GetSelectTick
    \/ GetSelectCtxDone
    \/ GetNewRequestFails
    \/ GetDo
    \/ GetAllFailed

SpecHTTP == InitHTTP /\ [][NextHTTP]_vars


(***************************************************************************)
(* Adapter construction: every adapter keeps the pointer to the Config it  *)
(* was given (NewBaseAdapter), the CLI's store loop and the API server     *)
(* hand the same Config to every extractor they create, and                *)
(* BaseAdapter.GetPageContent reads Config.UseHeadlessBrowser through that *)
(* pointer at the time of the fetch.  The interleaving of the actions      *)
(* covers the sequential loop and concurrent requests alike.               *)
(***************************************************************************)

InitConfig ==
    /\ IdleURL
    /\ IdleRun
    /\ IdleChart
    /\ IdleTitle
    /\ IdleHTTP
    /\ IdleFilter
    /\ IdleSuqahRows
    /\ IdleCollections
    /\ callerHeadless \in BOOLEAN
    /\ useHeadlessBrowser = callerHeadless
    /\ adapters = <<>>
    /\ fetched = <<>>

\* NewBaseAdapter: the adapter holds the caller's Config, not a copy
NewBaseAdapter(store) ==
    /\ Len(adapters) < MaxAdapters
    /\ adapters' = Append(adapters, store)
    /\ UNCHANGED <<callerHeadless, fetched>>
    /\ UNCHANGED exceptConfig

NewWestsideAdapter ==
    /\ useHeadlessBrowser' = TRUE
    /\ NewBaseAdapter("westside.com")

NewSuqahAdapter ==
    /\ useHeadlessBrowser' = TRUE
    /\ NewBaseAdapter("suqah.com")

NewLittleBoxIndiaAdapter ==
    /\ UNCHANGED useHeadlessBrowser
    /\ NewBaseAdapter("littleboxindia.com")

\* BaseAdapter.GetPageContent of a constructed adapter: browser or HTTP client
BaseGetPageContent ==
    /\ Len(fetched) < MaxFetches
    /\ \E i \in 1..Len(adapters) :
         fetched' = Append(fetched, [store |-> adapters[i],
                                     browser |-> useHeadlessBrowser])
    /\ UNCHANGED <<callerHeadless, useHeadlessBrowser, adapters>>
    /\ UNCHANGED exceptConfig

NextConfig ==
    \/ NewWestsideAdapter
    \/ NewSuqahAdapter
    \/ NewLittleBoxIndiaAdapter
    \/ BaseGetPageContent

SpecConfig == InitConfig /\ [][NextConfig]_vars


(***************************************************************************)
(* FilterSizeChart run more than once on the same chart                    *)
(***************************************************************************)
FilterHeaderRows == {
    <<T("Size"), T("Bust"), T("Waist")>>,
    <<T("Bust Size"), T("Waist"), T("Hips")>>,
    <<T("Size"), T("Hip"), T("Hips")>>,
    <<T("Color"), T("Material")>> }

FilterDataRows == {
    <<T("S"), T("34"), T("28")>>,
    <<T("M"), T("36"), T("")>>,
    <<T("L"), T(""), T("")>> }

\* the charts handed to FilterSizeChart: a header row and up to MaxRows rows
FilterInputs ==
    {ChartOfTable(Table({}, <<>>, <<header>> \o rows)) :
        header \in FilterHeaderRows, rows \in SeqsUpTo(FilterDataRows, MaxRows)}

InitFilter ==
    /\ IdleURL
    /\ IdleRun
    /\ IdleChart
    /\ IdleTitle
    /\ IdleHTTP
    /\ IdleConfig
    /\ IdleSuqahRows
    /\ IdleCollections
    /\ fPc = "run"
    /\ fInput \in FilterInputs
    /\ fOutputs = <<>>

\* one call of BaseAdapter.FilterSizeChart(fInput)
BaseFilterSizeChart ==
    /\ fPc = "run"
    /\ Len(fOutputs) < FilterRuns
    /\ \E filtered \in FilterSizeChart(fInput) :
         fOutputs' = Append(fOutputs, IF filtered.isNil THEN Nil ELSE filtered.chart)
    /\ UNCHANGED <<fPc, fInput>>
    /\ UNCHANGED exceptFilter

NextFilter ==
    \/ BaseFilterSizeChart

SpecFilter == InitFilter /\ [][NextFilter]_vars


(***************************************************************************)
(* The row loop of extractSuqahTableData, one table row per step: rowIndex *)
(* and rows live across the iterations of table.Find("tr").Each            *)
(***************************************************************************)
SuqahLabelHeaders == {<<"Size", "Bust", "Waist">>, <<"HIPS", "BUST", "WAIST">>}

SuqahLabelRows == {
    <<T("S"), T("34"), T("28")>>,
    <<T("36"), T("30"), T("38")>>,
    <<T("UK8"), T("34"), T("28")>>,
    <<T("Small"), T("34"), T("28")>>,
    <<T(""), T("36"), T("30")>>,
    <<T("BUST"), T("WAIST"), T("HIPS")>> }

InitSuqahRows ==
    /\ IdleURL
    /\ IdleRun
    /\ IdleChart
    /\ IdleTitle
    /\ IdleHTTP
    /\ IdleConfig
    /\ IdleFilter
    /\ IdleCollections
    /\ sHeaders \in SuqahLabelHeaders
    /\ sSeen = 0
    /\ sRowIndex = 0
    /\ sRowsLen = 0
    /\ sCells = <<>>
    /\ sAppended = FALSE
    /\ sRowData = EmptyMap

\* one iteration of the closure over the rows after the first
SuqahTableRow ==
    /\ sSeen >= 0
    /\ sSeen < MaxTableRows
    /\ \E cells \in SuqahLabelRows :
         \E out \in {SuqahRows(<<cells>>, sHeaders,
                               \E i \in DOMAIN sHeaders : Contains(ToLower(sHeaders[i]), "size"),
                               sRowIndex, <<>>)} :
            /\ sCells' = TrimmedTexts(cells)
            /\ sAppended' = (Len(out) = 1)
            /\ sRowData' = IF Len(out) = 1 THEN out[1] ELSE sRowData
            /\ sRowIndex' = IF Len(out) = 1 THEN sRowIndex + 1 ELSE sRowIndex
            /\ sRowsLen' = sRowsLen + Len(out)
    /\ sSeen' = sSeen + 1
    /\ UNCHANGED sHeaders
    /\ UNCHANGED exceptSuqahRows

NextSuqahRows ==
    \/ SuqahTableRow

SpecSuqahRows == InitSuqahRows /\ [][NextSuqahRows]_vars

(***************************************************************************)
(* LittleBoxIndiaExtractor.ExtractAll with LittleBoxIndiaAdapter's         *)
(* GetProductURLs: the products page, the loop over the collections, then  *)
(* the loop over the product URLs                                          *)
(***************************************************************************)
LittleBoxIndiaCollectionCap == 4

InitLittleBox ==
    /\ stores = <<"littleboxindia.com">>
    /\ storeIdx = 1
    /\ rPc = "main"
    /\ nURLs = 0
    /\ idx = 0
    /\ results = <<>>
    /\ storeResults = <<>>
    /\ attempted = {}
    /\ failed = {}
    /\ startedStores = {}
    /\ failedStores = {}
    /\ IdleURL
    /\ IdleChart
    /\ IdleTitle
    /\ IdleHTTP
    /\ IdleConfig
    /\ IdleFilter
    /\ IdleSuqahRows
    /\ IdleCollections

\* GetProductURLs steps 1 and 2: the products page is fetched and parsed and
\* ExtractCollectionURLs returns the collection URLs
LittleBoxCollectionURLs ==
    /\ rPc = "discover"
    /\ stores[storeIdx] = "littleboxindia.com"
    /\ \E n \in 0..(LittleBoxIndiaCollectionCap + MaxCollections) : nCollections' = n
    /\ collIdx' = 0
    /\ collFetched' = {}
    /\ foundProducts' = FALSE
    /\ rPc' = "collections"
    /\ UNCHANGED <<stores, storeIdx, nURLs, idx, results, storeResults, attempted,
                   failed, startedStores, failedStores>>
    /\ UNCHANGED exceptRunAndCollections

\* GetProductURLs step 3, one iteration of "for i, collectionURL := range
\* collectionURLs": extractProductURLsFromCollection fetches the collection
\* page; it fails (logged, continue) or returns the page's product URLs,
\* and then the loop ends once i >= 4
FetchCollection ==
    /\ rPc = "collections"
    /\ collIdx < nCollections
    /\ collFetched' = collFetched \cup {collIdx}
    /\ \E outcome \in {"error", "none", "urls"} :
        IF outcome = "error"
        THEN /\ collIdx' = collIdx + 1
             /\ UNCHANGED <<foundProducts, rPc>>
        ELSE /\ foundProducts' = (foundProducts \/ outcome = "urls")
             /\ IF collIdx >= LittleBoxIndiaCollectionCap
                THEN rPc' = "collected" /\ UNCHANGED collIdx
                ELSE collIdx' = collIdx + 1 /\ UNCHANGED rPc
    /\ UNCHANGED nCollections
    /\ UNCHANGED <<stores, storeIdx, nURLs, idx, results, storeResults, attempted,
                   failed, startedStores, failedStores>>
    /\ UNCHANGED exceptRunAndCollections

CollectionLoopEnded ==
    rPc = "collected" \/ (rPc = "collections" /\ collIdx = nCollections)

\* GetProductURLs returns the deduplicated product URLs and ExtractAll
\* starts its loop over them
GetProductURLsReturns ==
    /\ CollectionLoopEnded
    /\ \E n \in 0..MaxURLsOf(stores[storeIdx]) :
          /\ (~foundProducts => n = 0)
          /\ (foundProducts => n > 0)
          /\ nURLs' = n
    /\ idx' = 0
    /\ rPc' = "products"
    /\ UNCHANGED <<stores, storeIdx, results, storeResults, attempted, failed,
                   startedStores, failedStores>>
    /\ UNCHANGED varsCollections
    /\ UNCHANGED exceptRunAndCollections

NextLittleBox ==
    \/ StartStore
    \/ DiscoveryFails
    \/ LittleBoxCollectionURLs
    \/ FetchCollection
    \/ GetProductURLsReturns
    \/ ExtractProduct
    \/ ReturnStore
    \/ Finish

SpecLittleBox == InitLittleBox /\ [][NextLittleBox]_vars


(***************************************************************************)
(* Claims                                                                  *)
(***************************************************************************)

\* C1 (as stated): when a store's product loop has ended, every URL after a
\* URL whose extraction failed was attempted; and when main is done, every
\* requested store with an extractor that comes after a store whose
\* ExtractAll failed was processed.
C1_EveryLaterURLAttempted ==
    /\ LoopEnded =>
         \A f \in failed : \A j \in (f + 1)..(nURLs - 1) : j \in attempted
    /\ rPc = "done" =>
         \A k \in failedStores : \A m \in (k + 1)..Len(stores) :
            stores[m] \in Stores => m \in startedStores

\* C1 (amended): a failed extraction never ends the loop: the URL right
\* after a failed one is attempted, and so is every later URL, except that
\* LittleBoxIndia's loop stops after the first URL at index >= 5 whose
\* extraction returned no error; a store whose ExtractAll fails does not
\* keep any later requested store from being processed.
C1_FailureIsolation ==
    /\ LoopEnded =>
         \A f \in failed :
            /\ f + 1 < nURLs => f + 1 \in attempted
            /\ \A j \in (f + 1)..(nURLs - 1) :
                  \/ j \in attempted
                  \/ /\ stores[storeIdx] = "littleboxindia.com"
                     /\ \E k \in attempted \ failed :
                           k >= LittleBoxIndiaProductCap /\ k < j
    /\ rPc = "done" =>
         \A k \in failedStores : \A m \in (k + 1)..Len(stores) :
            stores[m] \in Stores => m \in startedStores

C1_Witness ==
    /\ LoopEnded
    /\ \E f \in failed : f + 1 \in attempted
    /\ \E k \in failedStores : \E m \in startedStores : m > k

\* C2: when the run over the requested stores is done there is exactly one
\* StoreResult per requested store, in request order, and the entry of a
\* store without adapter carries an Error containing "no adapter found".
C2_OneResultPerStore ==
    rPc = "done" =>
        /\ Len(storeResults) = Len(stores)
        /\ \A k \in 1..Len(stores) :
            /\ k <= Len(storeResults) => storeResults[k].StoreName = stores[k]
            /\ (k <= Len(storeResults) /\ stores[k] \notin Stores) =>
                  Contains(storeResults[k].Error, "no adapter found")

\* C3: RemoveDuplicateURLs returns exactly the distinct URLs of its input,
\* each once, in order of first occurrence, and is idempotent.
C3_DedupFirstSeenOrder ==
    /\ uPc \in {"deduped", "reapplied"} =>
        /\ Range(uniqueProductURLs) = Range(productURLs)
        /\ \A i, j \in DOMAIN uniqueProductURLs :
              i # j => uniqueProductURLs[i] # uniqueProductURLs[j]
        /\ \A i, j \in DOMAIN uniqueProductURLs :
              i < j => FirstIndex(productURLs, uniqueProductURLs[i])
                        < FirstIndex(productURLs, uniqueProductURLs[j])
    /\ uPc = "reapplied" => rededuped = uniqueProductURLs

C3_Witness ==
    /\ uPc = "reapplied"
    /\ Len(productURLs) = 3
    /\ productURLs[1] = productURLs[3]
    /\ productURLs[1] # productURLs[2]
    /\ Len(uniqueProductURLs) = 2

\* C4: every URL emitted by link discovery has a host that contains the
\* domain of the store whose adapter (or whose origin, for the base
\* helpers) discovered it.
C4_DomainScoped ==
    uPc \in {"extracted", "deduped", "reapplied"} =>
        \A i \in DOMAIN productURLs : Contains(Hostname(productURLs[i]), uStore)

\* C5: normalizing an emitted (accepted, normalized) URL again against the
\* same origin returns it unchanged.
C5_NormalizeIdempotent ==
    uPc = "reapplied" => renormalized = productURLs

C5_Witness ==
    /\ uPc = "reapplied"
    /\ \E i \in DOMAIN productURLs :
          /\ productURLs[i] \notin Range(WholePage(uPage))
          /\ renormalized[i] = productURLs[i]
    /\ \E i \in DOMAIN productURLs : productURLs[i] \in Range(WholePage(uPage))

\* C6 (row retention): in every final chart a store hands to the aggregation
\* layer (Westside ExtractAllSizeCharts, Suqah ExtractProductData,
\* LittleBoxIndia ExtractProductTitleAndSizeCharts) every row has at least
\* one non-empty value under a header other than Size.
C6_RowRetention ==
    (cPc = "done" /\ <<cStore, cOp>> \in {<<"westside.com", "ExtractAllSizeCharts">>,
                                          <<"suqah.com", "ExtractProductData">>,
                                          <<"littleboxindia.com", "ExtractProductTitleAndSizeCharts">>})
    => \A c \in DOMAIN charts : \A r \in DOMAIN charts[c].Rows :
          \E h \in Range(charts[c].Headers) \ {"Size"} : MapGet(charts[c].Rows[r], h) # ""

\* C7 (canonical headers): every chart returned by ExtractSizeChart,
\* ExtractAllSizeCharts, ExtractProductData or
\* ExtractProductTitleAndSizeCharts has "Size" as its first header and only
\* "<Measurement> (<unit>)" headers after it, Measurement among Bust, Waist,
\* Hip, Shoulder, Chest and unit among in, cm.
C7_CanonicalHeaders ==
    (cPc = "done" /\ cOp \in {"ExtractSizeChart", "ExtractAllSizeCharts", "ExtractProductData",
                              "ExtractProductTitleAndSizeCharts"})
    => \A c \in DOMAIN charts :
          /\ Len(charts[c].Headers) >= 1
          /\ charts[c].Headers[1] = "Size"
          /\ \A i \in 2..Len(charts[c].Headers) :
                charts[c].Headers[i] \in
                    {m \o " (" \o u \o ")" : m \in {"Bust", "Waist", "Hip", "Shoulder", "Chest"},
                                            u \in {"in", "cm"}}

\* C8 (row keys within headers): in every chart a parser or an extraction
\* operation produced, the intermediate charts of extractSuqahTableData and
\* ExtractTableData included, the keys of every row are headers of the chart.
C8_RowKeysWithinHeaders ==
    \A chart \in Range(charts) \cup Range(rawChart) : \A r \in DOMAIN chart.Rows :
        DOMAIN chart.Rows[r] \subseteq Range(chart.Headers)

\* C9 (bust headers): every raw header that contains "bust", in any letter
\* case, is canonicalized to Bust: Westside makes it the Bust columns and
\* FilterSizeChart maps it to "Bust (in)".
C9_BustCanonicalized ==
    \A h \in DOMAIN headerCanon :
        Contains(ToLower(h), "bust") => headerCanon[h] \in {"Bust", "Bust (in)"}

\* C10 (keyword priority): a raw header that contains recognized keywords is
\* canonicalized to the first that matches in the order Shoulder, Chest,
\* Bust, Waist, Hip, Size, by cleanHeader (Westside) and by FilterSizeChart.
C10_KeywordPriority ==
    LET keywords == <<"shoulder", "chest", "bust", "waist", "hip", "size">>
        names == <<"Shoulder", "Chest", "Bust", "Waist", "Hip", "Size">>
    IN  \A h \in DOMAIN headerCanon :
            \A k \in DOMAIN keywords :
                (/\ Contains(ToLower(h), keywords[k])
                 /\ \A j \in 1..(k - 1) : ~Contains(ToLower(h), keywords[j]))
                => headerCanon[h] \in {names[k], names[k] \o " (in)"}

\* C11 (columns only for measurements that occur): a chart FilterSizeChart
\* produced (the Suqah operations) has the headers "Size" followed by exactly
\* those of "Bust (in)", "Waist (in)", "Hip (in)" that some input header was
\* mapped to; the table [SIZE, TO FIT BUST, TO FIT WAIST] gives the headers
\* [Size, Bust (in), Waist (in)].
C11_OnlyMatchedColumns ==
    (cPc = "done" /\ cStore = "suqah.com" /\ cErr = "" /\ Len(charts) > 0)
    => \A c \in DOMAIN charts :
          charts[c].Headers =
              <<"Size">> \o SelectSeq(Tail(OutputHeaders),
                                      LAMBDA o : o \in Range(headerCanon))

C13_DualUnitCells ==
    (/\ cPc = "done"
     /\ cStore = "littleboxindia.com"
     /\ cOp \in {"ExtractAllSizeCharts", "ExtractProductTitleAndSizeCharts"}
     /\ cErr = ""
     /\ "table.ks-table" \in cDoc[1].marks)
    => LET rows == TableRows(cDoc[1])
           label(r) == RowLabel(rows[r])
           lastOfLabel(r) == \A q \in (r + 1)..Len(rows) : label(q) # label(r)
       IN  \A r \in 2..Len(rows) : \A j \in 2..Len(rows[r]) :
             \A unit \in {<<"0", "in">>, <<"1", "cm">>} :
               LET decoded == JSONUnmarshal(ReplaceAll(rows[r][j].unit, "&quot;", Quote))
                   size == IF j <= Len(rows[1]) THEN TrimSpace(CellText(rows[1][j])) ELSE ""
               IN  (/\ label(r) \in DOMAIN WantedMeasurements
                    /\ lastOfLabel(r)
                    /\ rows[r][j].unit # ""
                    /\ decoded.ok
                    /\ unit[1] \in DOMAIN decoded.map
                    /\ decoded.map[unit[1]] # ""
                    /\ size # "")
                   => \E c \in DOMAIN charts : \E k \in DOMAIN charts[c].Rows :
                         /\ charts[c].Headers[2] = "Bust (" \o unit[2] \o ")"
                         /\ charts[c].Rows[k]["Size"] = size
                         /\ MapGet(charts[c].Rows[k],
                                   WantedMeasurements[label(r)] \o " (" \o unit[2] \o ")")
                            = decoded.map[unit[1]]

\* C14 (decoding fallback): when LittleBoxIndia processes a measurement
\* cell whose data-unit-values payload cannot be decoded, the trimmed text of
\* the cell is the value it writes: in ExtractAllSizeCharts and
\* ExtractProductTitleAndSizeCharts the inch chart and the centimeter chart
\* both have the row of the cell's size with that value, in ExtractSizeChart
\* the measurement's row has it, and the operation returns no error.
C14_DecodeFallback ==
    (/\ cPc = "done"
     /\ cStore = "littleboxindia.com"
     /\ cOp \in {"ExtractSizeChart", "ExtractAllSizeCharts", "ExtractProductTitleAndSizeCharts"}
     /\ cErr # "failed to get page content"
     /\ "table.ks-table" \in cDoc[1].marks)
    => LET rows == TableRows(cDoc[1])
           sizes == LittleBoxSizes(rows)
           label(r) == RowLabel(rows[r])
           lastOfLabel(r) == \A q \in (r + 1)..Len(rows) : label(q) # label(r)
           text(r, j) == TrimSpace(CellText(rows[r][j]))
           undecodable(r, j) ==
               /\ label(r) \in DOMAIN WantedMeasurements
               /\ j - 1 <= Len(sizes)
               /\ rows[r][j].unit # ""
               /\ ~JSONUnmarshal(ReplaceAll(rows[r][j].unit, "&quot;", Quote)).ok
               /\ text(r, j) # ""
       IN  \A r \in 2..Len(rows) : \A j \in 2..Len(rows[r]) :
             /\ (undecodable(r, j) /\ lastOfLabel(r) /\ cOp # "ExtractSizeChart")
                => /\ cErr = ""
                   /\ \A unit \in {"in", "cm"} :
                        \E c \in DOMAIN charts : \E k \in DOMAIN charts[c].Rows :
                           /\ charts[c].Headers[2] = "Bust (" \o unit \o ")"
                           /\ charts[c].Rows[k]["Size"] = sizes[j - 1]
                           /\ MapGet(charts[c].Rows[k],
                                     WantedMeasurements[label(r)] \o " (" \o unit \o ")")
                              = text(r, j)
             /\ (undecodable(r, j) /\ cOp = "ExtractSizeChart"
                 /\ Len(rows[r]) = Len(sizes) + 1)
                => /\ cErr = ""
                   /\ \E c \in DOMAIN charts : \E k \in DOMAIN charts[c].Rows :
                         /\ charts[c].Rows[k]["Size"] = WantedMeasurements[label(r)]
                         /\ MapGet(charts[c].Rows[k], sizes[j - 1]) = text(r, j)

\* ExtractAllSizeCharts returned an inch and a centimeter chart whose row M
\* has the Waist value 30, the text of the cell with the payload {0:30}
C14_Witness ==
    /\ cPc = "done"
    /\ cStore = "littleboxindia.com"
    /\ cOp = "ExtractAllSizeCharts"
    /\ cErr = ""
    /\ \E r \in DOMAIN cDoc[1].tbody :
          /\ Len(cDoc[1].tbody[r]) = 3
          /\ cDoc[1].tbody[r][3] = U(" 30 ", "{0:30}")
    /\ Len(charts) = 2
    /\ \E k \in DOMAIN charts[1].Rows :
          charts[1].Rows[k]["Size"] = "M" /\ MapGet(charts[1].Rows[k], "Waist (in)") = "30"
    /\ \E k \in DOMAIN charts[2].Rows :
          charts[2].Rows[k]["Size"] = "M" /\ MapGet(charts[2].Rows[k], "Waist (cm)") = "30"

\* C15 (as stated): in Suqah's selector chain the chart returned comes from
\* the first selector whose parsed table IsValidSizeChart accepts, and no
\* later selector is tried after it: of the tables parsed on the way only the
\* last can be one the classifier accepts, and then its chart is returned.
C15_FirstValidSelector ==
    (/\ cPc = "done"
     /\ cStore = "suqah.com"
     /\ cOp \in {"ExtractSizeChart", "ExtractAllSizeCharts", "ExtractProductData"})
    => \A i \in DOMAIN rawChart :
          IsValidSizeChart(rawChart[i]) => (i = Len(rawChart) /\ Len(charts) = 1)

\* C15 (amended): the selectors are tried in list order; the chart returned
\* is the filtered chart of the last table parsed, which the classifier
\* accepts and which filters to at least one row; every table parsed before
\* it, and every table parsed when nothing is returned, is rejected by the
\* classifier or can filter to no row (when the page was fetched).
C15_FirstValidNonEmptySelector ==
    (/\ cPc = "done"
     /\ cStore = "suqah.com"
     /\ cOp \in {"ExtractSizeChart", "ExtractAllSizeCharts", "ExtractProductData"}
     /\ cErr # "failed to get page content")
    => LET parsedInOrder ==
               SelectSeq([k \in DOMAIN SuqahSelectors |->
                            extractSuqahTableData(cDoc, SuqahSelectors[k])],
                         LAMBDA r : r.err = "")
           noRows(chart) ==
               \E f \in FilterSizeChart(chart) : f.isNil \/ Len(f.chart.Rows) = 0
       IN  /\ Len(rawChart) <= Len(parsedInOrder)
           /\ \A i \in DOMAIN rawChart : rawChart[i] = parsedInOrder[i].chart
           /\ \A i \in DOMAIN rawChart :
                 (i < Len(rawChart) \/ Len(charts) = 0)
                 => (~IsValidSizeChart(rawChart[i]) \/ noRows(rawChart[i]))
           /\ Len(charts) = 0 => Len(rawChart) = Len(parsedInOrder)
           /\ Len(charts) > 0 =>
                 /\ Len(charts) = 1
                 /\ Len(rawChart) >= 1
                 /\ IsValidSizeChart(rawChart[Len(rawChart)])
                 /\ Len(charts[1].Rows) > 0
                 /\ \E f \in FilterSizeChart(rawChart[Len(rawChart)]) :
                       ~f.isNil /\ f.chart = charts[1]

\* a chart was returned from the fourth table parsed: the three before it
\* were accepted by the classifier but filtered to no row
C15_Witness ==
    /\ cPc = "done"
    /\ cStore = "suqah.com"
    /\ cOp = "ExtractProductData"
    /\ Len(cDoc) = 2
    /\ Len(charts) = 1
    /\ Len(rawChart) = 4
    /\ \A i \in 1..3 : IsValidSizeChart(rawChart[i])
    /\ charts[1].Rows[1]["Size"] = "M"

\* C16 (as stated): Westside's link discovery returns the links of the
\* first of search-results container, carousel container, whole page that
\* has any; links of a later one are not added.
C16_FirstNonEmptyHypothesis ==
    (uStore = "westside.com" /\ uOp = "extractProductURLsFromCollection"
     /\ uPc \in {"extracted", "deduped", "reapplied"})
    => LET wizzy == CollectWestsideLinks(SelectHrefs(uPage.wizzy, "/products/"))
           swiper == CollectWestsideLinks(SelectHrefs(uPage.swiper, "/products/"))
           whole == CollectWestsideLinks(SelectHrefs(WholePage(uPage), "/products/"))
       IN  productURLs = (IF wizzy # <<>> THEN wizzy
                          ELSE IF swiper # <<>> THEN swiper ELSE whole)

\* C16 (amended): Westside's link discovery returns the links of the
\* search-results container followed by the links of the carousel container;
\* the links of the whole page are returned only when both containers gave
\* none, and are never added to links of the containers.
C16_ContainersThenWholePage ==
    (uStore = "westside.com" /\ uOp = "extractProductURLsFromCollection"
     /\ uPc \in {"extracted", "deduped", "reapplied"})
    => LET wizzy == CollectWestsideLinks(SelectHrefs(uPage.wizzy, "/products/"))
           swiper == CollectWestsideLinks(SelectHrefs(uPage.swiper, "/products/"))
           whole == CollectWestsideLinks(SelectHrefs(WholePage(uPage), "/products/"))
       IN  /\ (wizzy # <<>> \/ swiper # <<>>) => productURLs = wizzy \o swiper
           /\ (wizzy = <<>> /\ swiper = <<>>) => productURLs = whole

\* both containers and the rest of the page had a link; the links of the two
\* containers were returned
C16_Witness ==
    /\ uStore = "westside.com"
    /\ uOp = "extractProductURLsFromCollection"
    /\ uPc = "extracted"
    /\ CollectWestsideLinks(SelectHrefs(uPage.wizzy, "/products/")) # <<>>
    /\ CollectWestsideLinks(SelectHrefs(uPage.swiper, "/products/")) # <<>>
    /\ CollectWestsideLinks(SelectHrefs(uPage.rest, "/products/")) # <<>>
    /\ Len(productURLs) = 2

\* C17 (product title): the title of every Product an extractor appends is
\* the trimmed text of the first selector, in the adapter's selector order,
\* that yields non-empty text, and "Unknown Product" when no selector does;
\* it is never empty.
C17_ProductTitle ==
    \A p \in DOMAIN tProducts :
        LET selectors == IF tStore = "westside.com"
                         THEN <<".product__title h1", "h1.product-title", "h1[class*='title']",
                                ".product-name h1", ".product-info h1", ".product-details h1",
                                "h1">>
                         ELSE <<"h1.product-title", "h1[class*='title']", ".product-name h1",
                                ".product-info h1", ".product-details h1", "h1">>
            text(k) == ExtractText(tDoc, selectors[k]).text
            yielding == {k \in DOMAIN selectors : text(k) # ""}
        IN  /\ tProducts[p].ProductTitle # ""
            /\ yielding = {} => tProducts[p].ProductTitle = "Unknown Product"
            /\ \A k \in yielding :
                  (\A j \in yielding : k <= j) => tProducts[p].ProductTitle = text(k)

\* a Product was appended whose title is the text of a later selector: the
\* element of the first selector is blank
C17_Witness ==
    /\ tPc = "done"
    /\ Len(tProducts) = 1
    /\ Len(tDoc) = 2
    /\ tDoc[1] = Heading({"h1.product-title"}, "  ")
    /\ tDoc[2] = Heading({".product-info h1"}, " Floral Dress ")
    /\ tProducts[1].ProductTitle = "Floral Dress"

\* C18 (as written): Get makes at most MaxRetries+1 attempts, each after a
\* tick taken from the limiter; a body is returned only from an attempt that
\* answered 200; every error Get returns wraps the failure of the last
\* attempt, and names status 404 when every answer was 404.
C18_ErrorWrapsLastAttempt ==
    /\ Len(responses) <= hMaxRetries + 1
    /\ Len(responses) <= ticksTaken
    /\ (hPc = "returned" /\ hErr = "") =>
          /\ Len(responses) > 0
          /\ responses[Len(responses)].status = 200
          /\ hBody = responses[Len(responses)].body
    /\ (hPc = "returned" /\ hErr # "") =>
          /\ hBody = ""
          /\ Len(responses) > 0
          /\ hErr = "all retry attempts failed: "
                       \o AttemptError(responses[Len(responses)])
          /\ (\A i \in 1..Len(responses) : responses[i].status = 404)
                => Contains(hErr, "unexpected status code: 404")

\* C18 (amended): the bounds on attempts and the status-200 rule as above;
\* when all MaxRetries+1 attempts failed the error wraps the failure of the
\* last one (and names status 404 when every answer was 404); a call that
\* finds its context done while waiting for a tick returns ctx.Err() as it
\* is, and a call whose request cannot be created returns "failed to create
\* request" without having made an attempt.
C18_GetRetries ==
    /\ Len(responses) <= hMaxRetries + 1
    /\ Len(responses) <= ticksTaken
    /\ (hPc = "returned" /\ hErr = "") =>
          /\ Len(responses) > 0
          /\ responses[Len(responses)].status = 200
          /\ hBody = responses[Len(responses)].body
    /\ (hPc = "returned" /\ hErr # "") =>
          /\ hBody = ""
          /\ \/ /\ Len(responses) = hMaxRetries + 1
                /\ hErr = "all retry attempts failed: "
                             \o AttemptError(responses[Len(responses)])
                /\ (\A i \in 1..Len(responses) : responses[i].status = 404)
                      => Contains(hErr, "unexpected status code: 404")
             \/ /\ ctxDone
                /\ Len(responses) <= hMaxRetries
                /\ hErr = Canceled
             \/ /\ ~ParseOK(hURL)
                /\ responses = <<>>
                /\ HasPrefix(hErr, "failed to create request: ")

\* C18 witness: MaxRetries = 1, the server answered 404 twice, each attempt
\* took a tick, and Get returned the wrapped status error
C18_Witness ==
    /\ hPc = "returned"
    /\ hMaxRetries = 1
    /\ ~ctxDone
    /\ ticksTaken = 2
    /\ Len(responses) = 2
    /\ \A i \in 1..2 : responses[i].status = 404
    /\ hErr = "all retry attempts failed: unexpected status code: 404"

\* C19: a Get whose context was cancelled before the call returns exactly
\* context.Canceled, whether or not a tick was waiting in limiter.C
C19_CancelledBeforeCall ==
    (ctxAtCall /\ hPc = "returned") => (hErr = Canceled /\ hBody = "")

\* C20: constructing adapters leaves the caller's Config as the caller set
\* it, and every LittleBoxIndia or Suqah page is fetched by the headless
\* browser exactly when the caller set UseHeadlessBrowser, whichever
\* adapters were constructed before or in between
C20_ConfigIndependent ==
    /\ useHeadlessBrowser = callerHeadless
    /\ \A i \in 1..Len(fetched) :
         fetched[i].store \in {"littleboxindia.com", "suqah.com"}
            => fetched[i].browser = callerHeadless

\* C21 (determinism): two runs of FilterSizeChart on the same chart return
\* the same result, the same headers and the same rows, also when a header
\* contains several keywords of the header map and when several headers map
\* to the same output column.
C21_FilterDeterministic ==
    \A i, j \in DOMAIN fOutputs : fOutputs[i] = fOutputs[j]

\* C22 (store registry): every store name the CLI documents (westside,
\* littleboxindia, suqah) selects an extractor: once the store loop has
\* passed such a name, ExtractAll was called for it; it is never skipped as
\* an unknown store.
C22_DocumentedTokensSelect ==
    \A i \in 1..(storeIdx - 1) :
        (i \in DOMAIN stores /\ stores[i] \in DocumentedTokens) => i \in startedStores

\* C23 (header row and data rows): for a page with one table, ExtractTableData
\* returns as headers exactly the trimmed cells of one row, the thead row when
\* the table has a thead and the first row otherwise, and Westside's
\* extractDualUnitSizeChart takes its headers from the cells of that row
\* only; neither emits the row that supplied the headers as a data row, so
\* there are fewer data rows than table rows.
C23_HeaderRowSplit ==
    (cPc = "done" /\ cErr = "" /\ Len(cDoc) = 1)
    => /\ (cOp = "ExtractTableData" /\ Len(rawChart) = 1)
            => /\ rawChart[1].Headers = TrimmedTexts(Head(TableRows(cDoc[1])))
               /\ Len(rawChart[1].Rows) < Len(TableRows(cDoc[1]))
       /\ (cStore = "westside.com" /\ cOp = "ExtractSizeChart" /\ Len(charts) = 1)
            => /\ DOMAIN headerCanon \subseteq Range(TrimmedTexts(Head(TableRows(cDoc[1]))))
               /\ Len(charts[1].Rows) < Len(TableRows(cDoc[1]))

\* C24 (empty rows): no row returned by ExtractTableData or by Westside's
\* extractDualUnitSizeChart has only empty values, and a one-table page
\* whose rows after the first all consist of cells that are empty after
\* trimming gets the parser's "no data rows" error.
C24_EmptyRowsDropped ==
    (cPc = "done" /\ Len(cDoc) = 1)
    => LET parsed == IF cOp = "ExtractTableData" THEN Range(rawChart)
                     ELSE IF cStore = "westside.com" /\ cOp = "ExtractSizeChart"
                          THEN Range(charts) ELSE {}
           later == Tail(TableRows(cDoc[1]))
       IN  /\ \A chart \in parsed : \A r \in DOMAIN chart.Rows :
                \E k \in DOMAIN chart.Rows[r] : chart.Rows[r][k] # ""
           /\ (/\ \A r \in DOMAIN later : \A j \in DOMAIN later[r] :
                     TrimSpace(CellText(later[r][j])) = ""
               /\ \/ cOp = "ExtractTableData"
                  \/ /\ cStore = "westside.com"
                     /\ cOp = "ExtractSizeChart"
                     /\ cErr # "failed to get page content"
                     /\ ".sizeguide table" \in cDoc[1].marks)
              => cErr \in {"no data rows found in table", "no data rows found in size chart",
                           "no headers found in table", "no headers found in size chart"}

\* C25 (mismatched cell counts): a data row with more or fewer cells than
\* there are headers is still emitted and raises no error.  ExtractTableData
\* returns one row per selected table row, with the cells beyond the headers
\* ignored; LittleBoxIndia's ExtractSizeChart returns one row per wanted
\* measurement row of the table, and no error when there is such a row.
C25_MismatchTolerated ==
    (cPc = "done" /\ Len(cDoc) = 1 /\ cErr # "failed to get page content")
    => /\ (cOp = "ExtractTableData" /\ cErr = "")
            => /\ Len(rawChart[1].Rows) = Len(BodyRows(cDoc[1]))
               /\ \A r \in DOMAIN rawChart[1].Rows :
                     DOMAIN rawChart[1].Rows[r] \subseteq Range(rawChart[1].Headers)
       /\ (/\ cStore = "littleboxindia.com"
           /\ cOp = "ExtractSizeChart"
           /\ "table.ks-table" \in cDoc[1].marks
           /\ LittleBoxSizes(TableRows(cDoc[1])) # <<>>)
            => LET later == Tail(TableRows(cDoc[1]))
                   wanted == {r \in DOMAIN later : RowLabel(later[r]) \in DOMAIN WantedMeasurements}
               IN  wanted # {}
                   => /\ cErr = ""
                      /\ Len(charts) = 1
                      /\ \A r \in wanted : \E k \in DOMAIN charts[1].Rows :
                            charts[1].Rows[k]["Size"] = WantedMeasurements[RowLabel(later[r])]

\* C26 (positional alignment): the value of the cell in table column j is
\* stored under the header, or the size label, of column j of the header
\* row, also when a header cell is empty.  Westside (tables whose only size
\* column is the first): for a measurement column j whose cleaned name no
\* other column shares, the row of the data
\* row's size holds the cell's default and alt texts under "<name> (cm)" and
\* "<name> (in)".  LittleBoxIndia (ExtractAllSizeCharts): the inch value of
\* the cell in column j of a wanted measurement row is in the inch chart's
\* row of the size heading column j.
C26_PositionalAlignment ==
    (cPc = "done" /\ Len(cDoc) = 1 /\ cErr = "")
    => LET rows == TableRows(cDoc[1])
           header == TrimmedTexts(rows[1])
       IN  /\ (/\ cStore = "westside.com"
               /\ cOp = "ExtractSizeChart"
               /\ IsSizeHeader(header[1])
               /\ \A i \in 2..Len(header) : ~IsSizeHeader(header[i]))
                => \A r \in 2..Len(rows) : \A j \in 2..Len(rows[r]) :
                      (/\ j <= Len(header)
                       /\ ~IsSizeHeader(header[j])
                       /\ cleanHeader(header[j]) # ""
                       /\ \A i \in DOMAIN header :
                             cleanHeader(header[i]) = cleanHeader(header[j]) => i = j)
                      => \E k \in DOMAIN charts[1].Rows :
                            /\ MapGet(charts[1].Rows[k], "Size")
                                 = cleanSizeText(TrimSpace(CellText(rows[r][1])))
                            /\ MapGet(charts[1].Rows[k], cleanHeader(header[j]) \o " (cm)")
                                 = TrimSpace(rows[r][j].def)
                            /\ MapGet(charts[1].Rows[k], cleanHeader(header[j]) \o " (in)")
                                 = TrimSpace(rows[r][j].alt)
           /\ (/\ cStore = "littleboxindia.com"
               /\ cOp = "ExtractAllSizeCharts"
               /\ "table.ks-table" \in cDoc[1].marks)
                => \A r \in 2..Len(rows) : \A j \in 2..Len(rows[r]) :
                      (/\ RowLabel(rows[r]) \in DOMAIN WantedMeasurements
                       /\ \A q \in (r + 1)..Len(rows) : RowLabel(rows[q]) # RowLabel(rows[r])
                       /\ j <= Len(header)
                       /\ header[j] # ""
                       /\ UnitValue(rows[r][j], "0").has
                       /\ UnitValue(rows[r][j], "0").val # "")
                      => \E c \in DOMAIN charts : \E k \in DOMAIN charts[c].Rows :
                            /\ charts[c].Headers[2] = "Bust (in)"
                            /\ charts[c].Rows[k]["Size"] = header[j]
                            /\ MapGet(charts[c].Rows[k],
                                      WantedMeasurements[RowLabel(rows[r])] \o " (in)")
                               = UnitValue(rows[r][j], "0").val

\* C27 (header-like rows): Suqah's parser discards a row after the first as
\* header-like exactly when strictly more than half of its non-empty cell
\* values, trimmed and upper-cased, are among BUST, WAIST, HIP, HIPS, SIZE,
\* CHEST; every other row is a data row of the parsed chart.  So the parsed
\* chart of a one-table page has as many rows as the table has rows that are
\* not header-like by this rule, and the table is parsed when it has one.
C27_HeaderRowMajority ==
    (/\ cPc = "done"
     /\ cStore = "suqah.com"
     /\ cOp \in {"ExtractSizeChart", "ExtractAllSizeCharts", "ExtractProductData"}
     /\ cErr # "failed to get page content"
     /\ Len(cDoc) = 1)
    => LET rows == TableRows(cDoc[1])
           values(r) == TrimmedTexts(rows[r])
           nonEmpty(r) == Cardinality({j \in DOMAIN values(r) : values(r)[j] # ""})
           labels(r) == Cardinality({j \in DOMAIN values(r) :
                            ToUpper(values(r)[j]) \in {"BUST", "WAIST", "HIP", "HIPS",
                                                       "SIZE", "CHEST"}})
           dataRows == {r \in 2..Len(rows) : ~(2 * labels(r) > nonEmpty(r))}
       IN  /\ Len(rawChart) >= 1 => Len(rawChart[1].Rows) = Cardinality(dataRows)
           /\ dataRows # {} => Len(rawChart) >= 1

C29_DualUnitSplit ==
    (/\ cPc = "done"
     /\ cStore = "westside.com"
     /\ cOp = "ExtractAllSizeCharts"
     /\ cErr = ""
     /\ Len(cDoc) = 1)
    => LET rows == TableRows(cDoc[1])
           header == TrimmedTexts(rows[1])
           combined == rawChart[1]
       IN  /\ Len(charts) = 2
           /\ \A i \in 2..Len(charts[1].Headers) : HasSuffix(charts[1].Headers[i], " (in)")
           /\ \A i \in 2..Len(charts[2].Headers) : HasSuffix(charts[2].Headers[i], " (cm)")
           /\ \A c \in 1..2 :
                /\ Len(charts[c].Rows) = Len(combined.Rows)
                /\ \A k \in DOMAIN combined.Rows :
                      /\ ("Size" \in DOMAIN charts[c].Rows[k]) = ("Size" \in DOMAIN combined.Rows[k])
                      /\ MapGet(charts[c].Rows[k], "Size") = MapGet(combined.Rows[k], "Size")
           /\ (/\ IsSizeHeader(header[1])
               /\ \A i \in 2..Len(header) : ~IsSizeHeader(header[i]))
                => \A r \in 2..Len(rows) : \A j \in 2..Len(rows[r]) :
                      (/\ j <= Len(header)
                       /\ cleanHeader(header[j]) # ""
                       /\ \A i \in DOMAIN header :
                             cleanHeader(header[i]) = cleanHeader(header[j]) => i = j)
                      => \E k \in DOMAIN combined.Rows :
                            /\ MapGet(charts[2].Rows[k], "Size")
                                 = cleanSizeText(TrimSpace(CellText(rows[r][1])))
                            /\ MapGet(charts[2].Rows[k], cleanHeader(header[j]) \o " (cm)")
                                 = TrimSpace(rows[r][j].def)
                            /\ MapGet(charts[1].Rows[k], cleanHeader(header[j]) \o " (in)")
                                 = TrimSpace(rows[r][j].alt)


\* C30 (per-run caps of LittleBoxIndia): product discovery requests no
\* collection page after the collection at index 4, and ExtractAll attempts
\* no product after the product URL at index 5, whatever the outcome of the
\* item at the cap index and of the items after it.
C30_CapsEnforced ==
    /\ \A c \in collFetched : c <= LittleBoxIndiaCollectionCap
    /\ (1 \in startedStores /\ stores[1] = "littleboxindia.com")
         => \A i \in attempted : i <= LittleBoxIndiaProductCap

====
